---- MODULE Spec2Model ----
(***************************************************************************)
(* Model of the response normalizer of the Lux hotel search frontend       *)
(* (frontend/src/api/normalize.js).  normalizeSearchResponse is a pure     *)
(* function over JSON-compatible JavaScript values, so the model carries a *)
(* small embedding of those values and of the JavaScript operations the    *)
(* normalizer applies to them (truthiness, property reads, Number(),       *)
(* String(), ||, ??), and then the functions of the file one by one.       *)
(* Further specifications cover coerceItem on its own, several calls of    *)
(* the normalizer in progress at once, and the retry loop of postJSON      *)
(* (frontend/src/api/rpc.js), searchHotels (frontend/src/api/              *)
(* searchHotels.js), the search lifecycle of App (frontend/src/App.jsx)    *)
(* and the image handling of HotelCard (frontend/src/components/           *)
(* HotelCard.jsx).                                                         *)
(***************************************************************************)
EXTENDS Integers, Sequences, FiniteSets, TLC

VARIABLES input, pc, result, again, enveloped,      \* one caller of the normalizer
          heap, frames,                             \* concurrent callers
          options, attempt, fetches, ppc, lastErr, outcome, res, timers,
          tool,                                     \* one call of callTool
          payload, spc, toolArgs, calls, found,     \* one call of searchHotels
          form, app, apc, runs, dataBefore, ended,  \* the App component
          hotel, imageError, imageLoaded, mainIdx, forceSrc,
          loadState, forced, clicked                \* one HotelCard

normVars == <<input, pc, result, again, enveloped>>

concVars == <<heap, frames>>

postVars == <<options, attempt, fetches, ppc, lastErr, outcome, res, timers, tool>>

searchVars == <<payload, spc, toolArgs, calls, found>>

appVars == <<form, app, apc, runs, dataBefore, ended>>

cardVars == <<hotel, imageError, imageLoaded, mainIdx, forceSrc, loadState, forced, clicked>>

uiVars == <<searchVars, appVars, cardVars>>

apiVars == <<normVars, concVars, postVars>>

vars == <<apiVars, uiVars>>

(***************************************************************************)
(* JavaScript values.  Every value is a record tagged by t; the payload    *)
(* field has a different name for every tag.  A string is the sequence of  *)
(* its characters.  A number is the decimal n / 10^d, kept in lowest form  *)
(* (d = 0 or n not divisible by 10).  An object is a function from its own *)
(* property names to values.  Throw stands for an uncaught exception.      *)
(***************************************************************************)
Undefined == [t |-> "undefined"]

Null == [t |-> "null"]

NaN == [t |-> "NaN"]

Throw == [t |-> "throw"]

Bool(b) == [t |-> "boolean", b |-> b]

Dec(n, d) == [t |-> "number", n |-> n, d |-> d]

Num(n) == Dec(n, 0)

Str(s) == [t |-> "string", s |-> s]

Arr(a) == [t |-> "array", a |-> a]

Obj(f) == [t |-> "object", o |-> f]

NoProps == [k \in {} |-> Undefined]

IsNullish(v) == v.t \in {"undefined", "null"}

IsArray(v) == v.t = "array"

\* ToBoolean: undefined, null, false, 0, NaN and "" are falsy.
Truthy(v) ==
  CASE v.t \in {"undefined", "null", "NaN"} -> FALSE
    [] v.t = "boolean" -> v.b
    [] v.t = "number" -> v.n # 0
    [] v.t = "string" -> v.s # <<>>
    [] OTHER -> TRUE

\* v.k and v?.k for an own data property k that is no built-in of a primitive
\* or an array: only objects carry such properties.  (v.k on null/undefined
\* throws; the callers that can meet a nullish v say so themselves.)
Get(v, k) == IF v.t = "object" /\ k \in DOMAIN v.o THEN v.o[k] ELSE Undefined

\* v?.[0]
Index0(v) ==
  CASE v.t = "array" -> IF v.a = <<>> THEN Undefined ELSE v.a[1]
    [] v.t = "string" -> IF v.s = <<>> THEN Undefined ELSE Str(<<v.s[1]>>)
    [] OTHER -> Get(v, "0")

\* a || b || ... || last
RECURSIVE OrChain(_, _)
OrChain(vs, last) ==
  IF vs = <<>> THEN last
  ELSE IF Truthy(Head(vs)) THEN Head(vs) ELSE OrChain(Tail(vs), last)

\* a ?? b ?? ... ?? last
RECURSIVE CoalesceChain(_, _)
CoalesceChain(vs, last) ==
  IF vs = <<>> THEN last
  ELSE IF ~IsNullish(Head(vs)) THEN Head(vs) ELSE CoalesceChain(Tail(vs), last)

\* Array.prototype.filter(Boolean) on a sequence of values
RECURSIVE FilterTruthy(_)
FilterTruthy(vs) ==
  IF vs = <<>> THEN <<>>
  ELSE IF Truthy(Head(vs)) THEN <<Head(vs)>> \o FilterTruthy(Tail(vs))
       ELSE FilterTruthy(Tail(vs))

(***************************************************************************)
(* Characters, String() and Number().                                      *)
(***************************************************************************)
DigitChars == <<"0", "1", "2", "3", "4", "5", "6", "7", "8", "9">>

Digits == {DigitChars[i] : i \in 1..10}

DigitVal(c) == (CHOOSE i \in 1..10 : DigitChars[i] = c) - 1

UpperChars ==
  <<"A", "B", "C", "D", "E", "F", "G", "H", "I", "J", "K", "L", "M",
    "N", "O", "P", "Q", "R", "S", "T", "U", "V", "W", "X", "Y", "Z">>

LowerChars ==
  <<"a", "b", "c", "d", "e", "f", "g", "h", "i", "j", "k", "l", "m",
    "n", "o", "p", "q", "r", "s", "t", "u", "v", "w", "x", "y", "z">>

Lowers == {LowerChars[i] : i \in 1..26}

WhiteSpace == {" ", "\t", "\n"}

LowerChar(c) ==
  IF \E i \in 1..26 : UpperChars[i] = c
  THEN LowerChars[CHOOSE i \in 1..26 : UpperChars[i] = c]
  ELSE c

\* String.prototype.toLowerCase
toLowerCase(s) == [i \in 1..Len(s) |-> LowerChar(s[i])]

RECURSIVE NatChars(_)
NatChars(n) ==
  IF n < 10 THEN <<DigitChars[n + 1]>>
  ELSE NatChars(n \div 10) \o <<DigitChars[(n % 10) + 1]>>

RECURSIVE PadZeros(_, _)
PadZeros(s, len) == IF Len(s) >= len THEN s ELSE PadZeros(<<"0">> \o s, len)

\* the digits ds with a decimal point before the last d of them
PointAt(ds, d) ==
  IF d = 0 THEN ds
  ELSE SubSeq(ds, 1, Len(ds) - d) \o <<".">> \o SubSeq(ds, Len(ds) - d + 1, Len(ds))

\* Number.prototype.toString of the decimal n / 10^d
NumChars(n, d) ==
  (IF n < 0 THEN <<"-">> ELSE <<>>)
    \o PointAt(PadZeros(NatChars(IF n < 0 THEN 0 - n ELSE n), d + 1), d)

RECURSIVE JoinChars(_, _)
JoinChars(parts, sep) ==
  IF parts = <<>> THEN <<>>
  ELSE IF Len(parts) = 1 THEN Head(parts)
  ELSE Head(parts) \o sep \o JoinChars(Tail(parts), sep)

\* String(v), as template literals and Array.prototype.join apply it.
RECURSIVE ToChars(_)
ToChars(v) ==
  CASE v.t = "string" -> v.s
    [] v.t = "number" -> NumChars(v.n, v.d)
    [] v.t = "boolean" ->
         IF v.b THEN <<"t", "r", "u", "e">> ELSE <<"f", "a", "l", "s", "e">>
    [] v.t = "null" -> <<"n", "u", "l", "l">>
    [] v.t = "undefined" -> <<"u", "n", "d", "e", "f", "i", "n", "e", "d">>
    [] v.t = "NaN" -> <<"N", "a", "N">>
    [] v.t = "array" ->
         JoinChars([i \in 1..Len(v.a) |->
                      IF IsNullish(v.a[i]) THEN <<>> ELSE ToChars(v.a[i])],
                   <<",">>)
    [] OTHER ->
         <<"[", "o", "b", "j", "e", "c", "t", " ",
           "O", "b", "j", "e", "c", "t", "]">>

\* Array.prototype.join(sep)
Join(vs, sep) ==
  JoinChars([i \in 1..Len(vs) |->
               IF IsNullish(vs[i]) THEN <<>> ELSE ToChars(vs[i])], sep)

RECURSIVE TrimLeft(_)
TrimLeft(s) ==
  IF s # <<>> /\ Head(s) \in WhiteSpace THEN TrimLeft(Tail(s)) ELSE s

RECURSIVE TrimRight(_)
TrimRight(s) ==
  IF s # <<>> /\ s[Len(s)] \in WhiteSpace
  THEN TrimRight(SubSeq(s, 1, Len(s) - 1)) ELSE s

RECURSIVE DigitsVal(_)
DigitsVal(s) ==
  IF s = <<>> THEN 0
  ELSE 10 * DigitsVal(SubSeq(s, 1, Len(s) - 1)) + DigitVal(s[Len(s)])

RECURSIVE Lowest(_, _)
Lowest(n, d) ==
  IF d > 0 /\ n % 10 = 0 THEN Lowest(n \div 10, d - 1) ELSE Dec(n, d)

\* the digits ip before and fp after the decimal point, with the sign
ParseDigits(ip, fp, sign) ==
  IF /\ \A i \in 1..Len(ip) : ip[i] \in Digits
     /\ \A i \in 1..Len(fp) : fp[i] \in Digits
     /\ Len(ip) + Len(fp) >= 1
  THEN Lowest(sign * DigitsVal(ip \o fp), Len(fp))
  ELSE NaN

\* the position of the first "." of body, or one past its end
DotPos(body) ==
  IF \E i \in 1..Len(body) : body[i] = "."
  THEN CHOOSE i \in 1..Len(body) :
         body[i] = "." /\ \A j \in 1..(i - 1) : body[j] # "."
  ELSE Len(body) + 1

ParseParts(body, dot, sign) ==
  ParseDigits(SubSeq(body, 1, dot - 1), SubSeq(body, dot + 1, Len(body)), sign)

ParseUnsigned(body, sign) == ParseParts(body, DotPos(body), sign)

ParseTrimmed(tr) ==
  IF tr = <<>> THEN Num(0)
  ELSE ParseUnsigned(IF Head(tr) \in {"+", "-"} THEN Tail(tr) ELSE tr,
                     IF Head(tr) = "-" THEN 0 - 1 ELSE 1)

\* Number(string): optional white space, optional sign, decimal digits with an
\* optional fraction; "" is 0; anything else is NaN.  (The strings of this
\* model carry no exponent, radix prefix or "Infinity".)
StringToNumber(s) == ParseTrimmed(TrimRight(TrimLeft(s)))

\* Number(v); an array converts through its String()
ToNumber(v) ==
  CASE v.t = "number" -> v
    [] v.t \in {"NaN", "undefined"} -> NaN
    [] v.t = "null" -> Num(0)
    [] v.t = "boolean" -> IF v.b THEN Num(1) ELSE Num(0)
    [] v.t \in {"string", "array"} -> StringToNumber(ToChars(v))
    [] OTHER -> NaN

(***************************************************************************)
(* frontend/src/api/normalize.js, the helpers.                             *)
(***************************************************************************)
SlugMax == 60

IsSlugChar(c) == c \in Lowers \/ c \in Digits

\* .replace(/[^a-z0-9]+/g, "-"): every maximal run becomes one hyphen, that
\* is, every other character becomes a hyphen and a hyphen following one goes
HyphenateOthers(s) == [i \in 1..Len(s) |-> IF IsSlugChar(s[i]) THEN s[i] ELSE "-"]

StartsRun(h, i) == h[i] # "-" \/ i = 1 \/ h[i - 1] # "-"

KeepRunStarts(h, kept) == [j \in 1..Len(kept) |-> h[kept[j]]]

RunStarts(h) ==
  KeepRunStarts(h, SelectSeq([i \in 1..Len(h) |-> i], LAMBDA i : StartsRun(h, i)))

CollapseRuns(s) == RunStarts(HyphenateOthers(s))

RECURSIVE StripLeadingHyphens(_)
StripLeadingHyphens(s) ==
  IF s # <<>> /\ Head(s) = "-" THEN StripLeadingHyphens(Tail(s)) ELSE s

RECURSIVE StripTrailingHyphens(_)
StripTrailingHyphens(s) ==
  IF s # <<>> /\ s[Len(s)] = "-"
  THEN StripTrailingHyphens(SubSeq(s, 1, Len(s) - 1)) ELSE s

\* .slice(0, n)
SliceTo(s, n) == SubSeq(s, 1, IF Len(s) < n THEN Len(s) ELSE n)

\* slug without its final .slice(0, 60)
slugNoSlice(s) ==
  Str(StripTrailingHyphens(StripLeadingHyphens(CollapseRuns(toLowerCase(s)))))

\* function slug(s); s is the character sequence of String(s)
slug(s) ==
  Str(SliceTo(StripTrailingHyphens(StripLeadingHyphens(
                CollapseRuns(toLowerCase(s)))), SlugMax))

\* Number.isFinite(n) ? n : null
FiniteOrNull(n) == IF n.t = "number" THEN n ELSE Null

\* function num(v)
num(v) == IF IsNullish(v) THEN Null ELSE FiniteOrNull(ToNumber(v))

\* function joinParts(arr)
joinParts(arr) ==
  OrChain(<<Str(Join(FilterTruthy(arr), <<",", " ">>))>>, Null)

\* function empty()
empty ==
  Obj([items |-> Arr(<<>>), meta |-> Obj(NoProps),
       hotels |-> Arr(<<>>), narrative |-> Str(<<>>)])

\* function flattenArray(arrays)
RECURSIVE flattenArray(_)
flattenArray(arrays) ==
  IF arrays = <<>> THEN <<>>
  ELSE (IF IsArray(Head(arrays)) THEN Head(arrays).a ELSE <<>>)
         \o flattenArray(Tail(arrays))

\* the pools of one step result r, in the order they are pushed
ResultPools(r) ==
  flattenArray(<<Get(r, "offers"), Get(r, "items"), Get(r, "results"),
                 Get(r, "hotels"), Get(r, "data")>>)

\* the elements one step of a planner trace contributes (body of the for loop)
StepPools(s) ==
  IF ~Truthy(s) THEN <<>>
  ELSE ResultPools(OrChain(<<Get(s, "result"), Get(s, "output"), Get(s, "data")>>,
                           Null))

RECURSIVE ConcatAll(_)
ConcatAll(seqs) ==
  IF seqs = <<>> THEN <<>> ELSE Head(seqs) \o ConcatAll(Tail(seqs))

\* function flattenSteps(steps), called with a truthy steps only.  for...of
\* walks an array's elements or a string's characters; any other truthy value
\* is not iterable and the loop throws a TypeError.
\* return out.length ? out : undefined
NonEmptyOrUndefined(out) == IF out # <<>> THEN Arr(out) ELSE Undefined

StepsOut(elems) == ConcatAll([i \in 1..Len(elems) |-> StepPools(elems[i])])

flattenSteps(steps) ==
  IF steps.t \notin {"array", "string"} THEN Throw
  ELSE NonEmptyOrUndefined(
         StepsOut(IF steps.t = "array" THEN steps.a
                  ELSE [i \in 1..Len(steps.s) |-> Str(<<steps.s[i]>>)]))

\* function looksLikeHotel(x = {}); both callers pass a truthy x
looksLikeHotel(x) ==
  Truthy(OrChain(<<Get(x, "name"), Get(x, "hotelName"), Get(x, "propertyName"),
                   Get(x, "hotel")>>, Get(x, "property")))

\* function looksLikeOffer(x = {})
looksLikeOffer(x) ==
  Truthy(OrChain(<<Get(x, "price"), Get(x, "total"), Get(x, "amount"),
                   Get(x, "rate"), Get(x, "nightlyPrice"), Get(x, "pricing"),
                   Get(x, "offer")>>, Get(x, "room")))

\* coerceItem trying x.hotel and x.offer before x.data and x.result
coerceItemHotelFirst(x) ==
  IF Truthy(Get(x, "hotel")) THEN Get(x, "hotel")
  ELSE IF Truthy(Get(x, "offer")) THEN Get(x, "offer")
  ELSE IF Truthy(Get(x, "data"))
          /\ (looksLikeHotel(Get(x, "data")) \/ looksLikeOffer(Get(x, "data")))
       THEN Get(x, "data")
  ELSE IF Truthy(Get(x, "result"))
          /\ (looksLikeHotel(Get(x, "result")) \/ looksLikeOffer(Get(x, "result")))
       THEN Get(x, "result")
  ELSE x

\* function coerceItem(x = {}): the default covers undefined only, so null.data
\* throws a TypeError
coerceItem(x) ==
  IF x.t = "null" THEN Throw
  ELSE IF Truthy(Get(x, "data"))
          /\ (looksLikeHotel(Get(x, "data")) \/ looksLikeOffer(Get(x, "data")))
       THEN Get(x, "data")
  ELSE IF Truthy(Get(x, "result"))
          /\ (looksLikeHotel(Get(x, "result")) \/ looksLikeOffer(Get(x, "result")))
       THEN Get(x, "result")
  ELSE IF Truthy(Get(x, "hotel")) THEN Get(x, "hotel")
  ELSE IF Truthy(Get(x, "offer")) THEN Get(x, "offer")
  ELSE IF x.t = "undefined" THEN Obj(NoProps)
  ELSE x

\* function hasHotelSearchFields(x = {})
hasHotelSearchFields(x) ==
  Truthy(OrChain(<<Get(x, "check_in"), Get(x, "checkIn"), Get(x, "check_in_date"),
                   Get(x, "dateRange"), Get(x, "room")>>, Get(x, "rate")))

(***************************************************************************)
(* normalizeItem, field by field.                                          *)
(***************************************************************************)
ItemName(x) ==
  OrChain(<<Get(x, "name"), Get(x, "hotelName"), Get(x, "propertyName"),
            Get(x, "title"), Get(Get(x, "property"), "name"),
            Get(Get(x, "hotel"), "name")>>, Null)

\* the template literal `${name}-${checkIn}-${checkOut}` handed to slug
SlugSource(x, name) ==
  ToChars(name) \o <<"-">>
    \o ToChars(OrChain(<<Get(x, "checkIn"), Get(x, "check_in")>>, Str(<<>>)))
    \o <<"-">>
    \o ToChars(OrChain(<<Get(x, "checkOut"), Get(x, "check_out")>>, Str(<<>>)))

\* ItemId reading hotelId first and never x.id
ItemIdSkipsId(x, name) ==
  OrChain(<<Get(x, "hotelId"), Get(x, "propertyId"),
            Get(x, "offerId"), Get(x, "reference")>>,
          IF Truthy(name) THEN slug(SlugSource(x, name)) ELSE Null)

ItemId(x, name) ==
  OrChain(<<Get(x, "id"), Get(x, "hotelId"), Get(x, "propertyId"),
            Get(x, "offerId"), Get(x, "reference")>>,
          IF Truthy(name) THEN slug(SlugSource(x, name)) ELSE Null)

ItemPrice(x) ==
  CoalesceChain(<<num(Get(Get(x, "price"), "total")),
                  num(Get(Get(x, "price"), "amount")),
                  num(Get(x, "price")),
                  num(Get(x, "total")),
                  num(Get(x, "amount")),
                  num(Get(Get(x, "rate"), "amount")),
                  num(Get(x, "nightlyPrice")),
                  num(Get(Get(x, "pricing"), "total"))>>, Null)

ItemCurrency(x) ==
  OrChain(<<Get(Get(x, "price"), "currency"), Get(x, "currency"),
            Get(Get(x, "rate"), "currency"),
            Get(Get(x, "pricing"), "currency")>>, Null)

ItemAddress(x) ==
  LET a == Get(x, "address")
  IN OrChain(<<joinParts(<<OrChain(<<Get(a, "line1"), Get(a, "address1")>>,
                                   Get(a, "street")),
                           OrChain(<<Get(a, "line2")>>, Get(a, "address2")),
                           OrChain(<<Get(a, "postalCode")>>, Get(a, "zip"))>>),
               Get(a, "freeform"), Get(a, "full"),
               Get(Get(x, "location"), "address")>>, Null)

ItemCity(x) ==
  OrChain(<<Get(Get(x, "address"), "city"), Get(x, "city"),
            Get(Get(x, "location"), "city"),
            Get(Get(Get(x, "property"), "address"), "city")>>, Null)

ItemLat(x) ==
  CoalesceChain(<<num(Get(Get(x, "location"), "lat")),
                  num(Get(Get(x, "location"), "latitude")),
                  num(Get(Get(x, "coordinates"), "lat")),
                  num(Get(Get(x, "coordinates"), "latitude"))>>, Null)

ItemLng(x) ==
  CoalesceChain(<<num(Get(Get(x, "location"), "lng")),
                  num(Get(Get(x, "location"), "lon")),
                  num(Get(Get(x, "location"), "longitude")),
                  num(Get(Get(x, "coordinates"), "lng")),
                  num(Get(Get(x, "coordinates"), "lon")),
                  num(Get(Get(x, "coordinates"), "longitude"))>>, Null)

ItemStars(x) ==
  CoalesceChain(<<num(Get(x, "stars")), num(Get(Get(x, "rating"), "stars")),
                  num(Get(x, "class")), num(Get(x, "starRating"))>>, Null)

ItemRating(x) ==
  CoalesceChain(<<num(Get(Get(x, "rating"), "value")), num(Get(x, "reviewScore")),
                  num(Get(x, "score")), num(Get(x, "guestRating"))>>, Null)

ItemThumbnail(x) ==
  OrChain(<<Get(x, "thumbnail"), Get(x, "image"), Index0(Get(x, "images")),
            Get(Index0(Get(x, "photos")), "url"),
            Get(Index0(Get(x, "media")), "url")>>, Null)

ItemSource(x) ==
  OrChain(<<Get(x, "_source"), Get(x, "source")>>,
          IF hasHotelSearchFields(x)
          THEN Str(<<"h", "o", "t", "e", "l", "_", "s", "e", "a", "r", "c", "h">>)
          ELSE Str(<<"p", "l", "a", "n">>))

\* the drop rule and the returned object
ItemRecord(x, name, id) ==
  IF ~Truthy(name) /\ ~Truthy(id) THEN Null
  ELSE Obj([id |-> id, name |-> name, price |-> ItemPrice(x),
            currency |-> ItemCurrency(x), address |-> ItemAddress(x),
            city |-> ItemCity(x), lat |-> ItemLat(x), lng |-> ItemLng(x),
            stars |-> ItemStars(x), rating |-> ItemRating(x),
            thumbnail |-> ItemThumbnail(x), source |-> ItemSource(x),
            raw |-> x])

ItemWithName(x, name) == ItemRecord(x, name, ItemId(x, name))

\* normalizeItem without its drop rule
normalizeItemKeepAll(x) ==
  IF x.t = "null" THEN Throw
  ELSE Obj([id |-> ItemId(x, ItemName(x)), name |-> ItemName(x),
            price |-> ItemPrice(x), currency |-> ItemCurrency(x),
            address |-> ItemAddress(x), city |-> ItemCity(x), lat |-> ItemLat(x),
            lng |-> ItemLng(x), stars |-> ItemStars(x), rating |-> ItemRating(x),
            thumbnail |-> ItemThumbnail(x), source |-> ItemSource(x), raw |-> x])

\* function normalizeItem(x = {}): null when neither a name nor an id resolves;
\* the default covers undefined only, so null.name throws a TypeError
normalizeItem(x) ==
  IF x.t = "null" THEN Throw
  ELSE IF x.t = "undefined" THEN Null
  ELSE ItemWithName(x, ItemName(x))

\* the character U+2022 of the separator " \u2022 " (written in ASCII here)
Bullet == "*"

\* extractMeta without the final || "" of narrative and || null of agent
extractMetaNoFallback(in) ==
  Obj([narrative |->
         OrChain(<<Get(in, "narrative"), Get(in, "summary"), Get(in, "text")>>,
                 Get(in, "message")),
       agent |-> OrChain(<<Get(in, "agent"), Get(in, "tool"), Get(in, "type")>>,
                         Get(in, "workflow"))])

\* function extractMeta(input = {})
extractMeta(in) ==
  LET notes == Get(in, "notes")
      narrative ==
        OrChain(<<Get(in, "narrative"), Get(in, "summary"), Get(in, "text"),
                  Get(in, "message"),
                  IF IsArray(notes) THEN Str(Join(notes.a, <<" ", Bullet, " ">>))
                  ELSE Str(<<>>)>>, Str(<<>>))
      agent == OrChain(<<Get(in, "agent"), Get(in, "tool"), Get(in, "type"),
                         Get(in, "workflow")>>, Null)
  IN Obj([narrative |-> narrative, agent |-> agent])

(***************************************************************************)
(* normalizeSearchResponse(input)                                          *)
(***************************************************************************)
\* Candidates reading input.results before input.items
CandidatesResultsFirst(in) ==
  <<Get(in, "results"), Get(in, "items"), Get(in, "offers"), Get(in, "hotels"),
    Get(in, "data"), Get(in, "payload"),
    IF Truthy(Get(in, "steps")) THEN flattenSteps(Get(in, "steps"))
    ELSE Get(in, "steps")>>

\* the candidates array before .filter(Boolean)
Candidates(in) ==
  <<Get(in, "items"), Get(in, "results"), Get(in, "offers"), Get(in, "hotels"),
    Get(in, "data"), Get(in, "payload"),
    IF Truthy(Get(in, "steps")) THEN flattenSteps(Get(in, "steps"))
    ELSE Get(in, "steps")>>

\* flat.length ? flat : (looksLikeHotel(input) || looksLikeOffer(input)) ? [input] : []
SourceItems(in, flat) ==
  IF flat # <<>> THEN flat
  ELSE IF looksLikeHotel(in) \/ looksLikeOffer(in) THEN <<in>> ELSE <<>>

\* Array.prototype.map(f) followed by .filter(Boolean); a throwing callback
\* ends the whole map
FilterUnlessThrow(mapped) ==
  IF \E i \in 1..Len(mapped) : mapped[i] = Throw THEN Throw
  ELSE Arr(FilterTruthy(mapped))

NormalizeAll(coerced) ==
  IF \E i \in 1..Len(coerced) : coerced[i] = Throw THEN Throw
  ELSE FilterUnlessThrow([i \in 1..Len(coerced) |-> normalizeItem(coerced[i])])

\* sourceItems.map(coerceItem).map(normalizeItem).filter(Boolean)
MapItems(src) == NormalizeAll([i \in 1..Len(src) |-> coerceItem(src[i])])

\* Response with the compatibility fields left at their empty defaults
ResponseNoAlias(items, meta) ==
  IF items = Throw THEN Throw
  ELSE Obj([items |-> items, meta |-> meta, hotels |-> Arr(<<>>),
            narrative |-> Str(<<>>)])

\* the returned object
Response(items, meta) ==
  IF items = Throw THEN Throw
  ELSE Obj([items |-> items, meta |-> meta, hotels |-> items,
            narrative |-> CoalesceChain(<<Get(meta, "narrative")>>, Str(<<>>))])

FromCandidates(in, cands) ==
  IF cands[7] = Throw THEN Throw
  ELSE Response(MapItems(SourceItems(in, flattenArray(FilterTruthy(cands)))),
                extractMeta(in))

normalizeSearchResponse(in) ==
  IF ~Truthy(in) THEN empty ELSE FromCandidates(in, Candidates(in))

(***************************************************************************)
(* The inputs the calls are made with: JSON-compatible values (and         *)
(* undefined, for a call without an argument), built from a few aspects of *)
(* a raw entity and from the places of a payload an entity can sit at.     *)
(***************************************************************************)
MaxItems == 2

MaxSteps == 2

HotelAlpha == <<"H", "o", "t", "e", "l", " ", "A", "l", "p", "h", "a">>

BetaHouse == <<"B", "e", "t", "a", " ", "H", "o", "u", "s", "e">>

CheckInDate == <<"2", "0", "2", "5", "-", "0", "9", "-", "0", "1">>

CheckOutDate == <<"2", "0", "2", "5", "-", "0", "9", "-", "0", "5">>

EstPriceText == <<"1", "2", "0", ".", "5", "0">>

TotalText == <<"$", "2", "0", "0">>

\* the object with the properties of f and those of g (their names differ)
Merge(f, g) ==
  [k \in DOMAIN f \cup DOMAIN g |-> IF k \in DOMAIN f THEN f[k] ELSE g[k]]

\* the object { [k]: v }
Prop(k, v) == [kk \in {k} |-> v]

\* all sequences over S of length at most n
RECURSIVE SeqsUpTo(_, _)
SeqsUpTo(S, n) ==
  IF n = 0 THEN {<<>>}
  ELSE LET shorter == SeqsUpTo(S, n - 1)
       IN shorter \cup {Append(q, e) : q \in shorter, e \in S}

\* a name of 70 characters whose 60th is a blank
LongName == [i \in 1..70 |-> IF i % 6 = 0 THEN " " ELSE IF i % 2 = 0 THEN "A" ELSE "b"]

NameAspects ==
  {NoProps, [name |-> Str(LongName)], [name |-> Str(HotelAlpha)], [title |-> Str(BetaHouse)],
   [name |-> Str(<<>>), hotelName |-> Str(BetaHouse)],
   [name |-> Str(<<"!", "!">>)], [name |-> Num(42)]}

IdAspects ==
  {NoProps, [id |-> Str(<<"A", "1">>)], [id |-> Str(<<"a", "1">>)],
   [id |-> Num(0), offerId |-> Num(7)]}

PriceAspects ==
  {NoProps, [price |-> Num(100)],
   [price |-> Num(100), nightlyPrice |-> Num(80)],
   [price |-> Num(100), est_price_gbp |-> Num(80)],
   [est_price |-> Str(EstPriceText)],
   [total |-> Str(TotalText)],
   [price |-> Obj([amount |-> Str(EstPriceText), currency |-> Str(<<"E", "U", "R">>)]),
    currency |-> Str(<<"U", "S", "D">>)]}

StayAspects ==
  {NoProps, [check_in |-> Str(CheckInDate)],
   [checkIn |-> Str(CheckInDate), checkOut |-> Str(CheckOutDate)]}

HotelAspects == {NoProps, [hotel |-> Obj([name |-> Str(BetaHouse)])]}

\* raw entities: one choice of every aspect
Entities ==
  {Obj(Merge(n, Merge(i, Merge(p, Merge(s, h))))) :
     n \in NameAspects, i \in IdAspects, p \in PriceAspects,
     s \in StayAspects, h \in HotelAspects}

\* the elements the longer candidate arrays are made of
ArrayElements ==
  {Null, Num(5), Str(<<"a", "b">>), Obj(NoProps),
   Obj([name |-> Str(HotelAlpha)]),
   Obj([id |-> Str(<<"A", "1">>), name |-> Str(HotelAlpha), price |-> Num(100)]),
   Obj([id |-> Str(<<"a", "1">>), name |-> Str(BetaHouse), price |-> Num(90)]),
   Obj([data |-> Obj([name |-> Str(BetaHouse), check_in |-> Str(CheckInDate)])]),
   Obj([hotel |-> Obj([name |-> Str(BetaHouse)]), total |-> Str(TotalText)])}

Locations == {"items", "results", "offers", "hotels", "data", "payload"}

Pools == {"offers", "items", "results", "hotels", "data"}

PrimitiveInputs ==
  {Undefined, Null, Bool(FALSE), Bool(TRUE), Num(0), Num(5), Dec(5, 1),
   Str(<<>>), Str(<<"a", "b">>)}

\* a lone entity, as the payload itself or as the only element of results
EntityInputs == Entities \cup {Obj([results |-> Arr(<<e>>)]) : e \in Entities}

\* one candidate array of up to MaxItems elements at one known location
ArrayInputs ==
  {Obj(Prop(loc, Arr(q))) : loc \in Locations, q \in SeqsUpTo(ArrayElements, MaxItems)}
    \cup {Arr(q) : q \in SeqsUpTo(ArrayElements, 1)}

StepEntities ==
  {Obj([name |-> Str(HotelAlpha), price |-> Num(100)]),
   Obj([hotel |-> Obj([name |-> Str(BetaHouse)]), total |-> Str(TotalText)])}

StepValues ==
  {Null, Num(1), Obj([result |-> Num(5)]), Obj([result |-> Obj(NoProps)])}
    \cup {Obj([result |-> Obj(Prop(pool, Arr(<<e>>)))]) :
            pool \in Pools, e \in StepEntities}
    \cup {Obj(Prop(k, Obj([offers |-> Arr(<<e>>)]))) :
            k \in {"output", "data"}, e \in StepEntities}

\* a planner trace, and the values of steps that are no array
StepsInputs ==
  {Obj([steps |-> Arr(q)]) : q \in SeqsUpTo(StepValues, MaxSteps)}
    \cup {Obj([steps |-> v]) :
            v \in {Num(0), Num(5), Bool(TRUE), Str(<<"a", "b">>), Obj(NoProps), Null}}

MetaAspects ==
  {NoProps, [narrative |-> Str(<<"N", "i", "c", "e">>)],
   [narrative |-> Str(<<>>), summary |-> Str(<<"S", "u", "m">>)],
   [narrative |-> Num(0), text |-> Num(7)],
   [message |-> Str(<<"M", "s", "g">>), notes |-> Arr(<<Str(<<"a">>)>>)],
   [notes |-> Arr(<<Str(<<"a">>), Null, Str(<<"b">>)>>)],
   [notes |-> Arr(<<>>)], [notes |-> Str(<<"n">>)], [narrative |-> Null],
   [hotels |-> Obj([narrative |-> Str(<<"W", "r", "a", "p">>)])]}

AgentAspects ==
  {NoProps, [agent |-> Str(<<"p", "l", "a", "n">>)],
   [tool |-> Str(<<"t">>), type |-> Str(<<"y">>)], [workflow |-> Num(3)]}

MetaInputs ==
  {Obj(Merge(m, Merge(a, b))) :
     m \in MetaAspects, a \in AgentAspects,
     b \in {NoProps, [items |-> Arr(<<Obj([name |-> Str(HotelAlpha)])>>)]}}

\* records handed to coerceItem: one choice for each container field and for
\* the record's own fields
DataAspects ==
  {NoProps, [data |-> Null], [data |-> Obj(NoProps)],
   [data |-> Obj([name |-> Str(BetaHouse)])],
   [data |-> Obj([price |-> Num(100)])],
   [data |-> Obj([hotel |-> Obj([name |-> Str(BetaHouse)])])],
   [data |-> Arr(<<Obj([name |-> Str(BetaHouse)])>>)]}

ResultAspects ==
  {NoProps, [result |-> Obj(NoProps)],
   [result |-> Obj([hotelName |-> Str(HotelAlpha)])],
   [result |-> Obj([total |-> Num(200), offer |-> Obj([price |-> Num(90)])])]}

OfferAspects == {NoProps, [offer |-> Null], [offer |-> Obj([price |-> Num(90)])]}

OwnAspects == {NoProps, [name |-> Str(HotelAlpha)], [type |-> Str(<<"h">>)]}

CoerceInputs ==
  {Obj(Merge(d, Merge(r, Merge(h, Merge(o, w))))) :
     d \in DataAspects, r \in ResultAspects,
     h \in HotelAspects \cup {[hotel |-> Null]}, o \in OfferAspects,
     w \in OwnAspects}

\* a payload that is an entity itself and also has a value at a known location
FallbackInputs ==
  {Obj(Merge(e, Prop(loc, v))) :
     e \in {[name |-> Str(HotelAlpha)], [price |-> Num(100)], [city |-> Str(<<"X">>)]},
     loc \in Locations,
     v \in {Arr(<<>>), Arr(<<Obj([name |-> Str(BetaHouse)])>>), Obj(NoProps),
            Str(<<"a", "b">>)}}

\* an entity that has nothing but an id
Tag(c) == Obj([id |-> Str(<<c>>)])

\* a planner trace of two steps with several pools each
TaggedSteps ==
  Arr(<<Obj([result |-> Obj([items |-> Arr(<<Tag("s")>>),
                             offers |-> Arr(<<Tag("o"), Obj(NoProps)>>)])]),
        Obj([output |-> Obj([data |-> Arr(<<Tag("d")>>),
                             hotels |-> Arr(<<Tag("h")>>),
                             results |-> Arr(<<Tag("r")>>)])])>>)

\* arrays at two known locations at once, with or without a planner trace
OrderInputs ==
  UNION {{Obj(Merge(Prop(l1, Arr(q)),
                    Merge(Prop(l2, Arr(<<Tag("x"), Obj(NoProps), Tag("y")>>)), st))) :
            l2 \in Locations \ {l1},
            q \in SeqsUpTo({Tag("a"), Tag("b"), Obj(NoProps)}, MaxItems),
            st \in {NoProps, [steps |-> TaggedSteps]}} : l1 \in Locations}

\* https://maps.googleapis.com/maps/api/place/photo?photo_reference=abc
GooglePhotoUrl ==
  <<"h", "t", "t", "p", "s", ":", "/", "/", "m", "a", "p", "s", ".", "g",
    "o", "o", "g", "l", "e", "a", "p", "i", "s", ".", "c", "o", "m", "/",
    "m", "a", "p", "s", "/", "a", "p", "i", "/", "p", "l", "a", "c", "e",
    "/", "p", "h", "o", "t", "o", "?", "p", "h", "o", "t", "o", "_", "r",
    "e", "f", "e", "r", "e", "n", "c", "e", "=", "a", "b", "c">>

\* https://img.example.com/a.jpg
OtherHostUrl ==
  <<"h", "t", "t", "p", "s", ":", "/", "/", "i", "m", "g", ".", "e", "x",
    "a", "m", "p", "l", "e", ".", "c", "o", "m", "/", "a", ".", "j", "p",
    "g">>

\* entities with an image list, alone in items
MediaInputs ==
  {Obj([items |-> Arr(<<Obj([name |-> Str(HotelAlpha), images |-> Arr(<<Str(u)>>)])>>)]) :
     u \in {GooglePhotoUrl, OtherHostUrl, <<"\"">> \o GooglePhotoUrl \o <<"\"">>}}

Inputs ==
  PrimitiveInputs \cup EntityInputs \cup ArrayInputs \cup StepsInputs \cup MetaInputs
    \cup FallbackInputs \cup OrderInputs \cup MediaInputs

(***************************************************************************)
(* The calls.  A caller holds an input, calls normalizeSearchResponse on   *)
(* it, and may then hand the items of the result back to it wrapped as     *)
(* {items: previousItems}.                                                 *)
(***************************************************************************)
Pending == [t |-> "pending"]

\* the JSON-RPC result envelope around a payload, before any unwrapping
Envelope(inner) ==
  Obj([result |-> Obj([content |-> Arr(<<Obj([json |-> inner])>>)])])

\* the parts of the state a specification does not use stay as they are
NormIdle ==
  /\ input = Pending
  /\ pc = "idle"
  /\ result = Pending
  /\ again = Pending
  /\ enveloped = Pending

ConcIdle == heap = Pending /\ frames = Pending

PostIdle ==
  /\ options = Pending
  /\ attempt = 0
  /\ fetches = 0
  /\ ppc = "idle"
  /\ lastErr = Pending
  /\ outcome = Pending
  /\ res = Pending
  /\ timers = {}
  /\ tool = Pending

SearchIdle ==
  /\ payload = Pending
  /\ spc = "idle"
  /\ toolArgs = Pending
  /\ calls = 0
  /\ found = Pending

AppIdle ==
  /\ form = Pending
  /\ app = Pending
  /\ apc = "unmounted"
  /\ runs = 0
  /\ dataBefore = Pending
  /\ ended = Pending

CardIdle ==
  /\ hotel = Pending
  /\ imageError = FALSE
  /\ imageLoaded = FALSE
  /\ mainIdx = 0
  /\ forceSrc = Pending
  /\ loadState = "unmounted"
  /\ forced = 0
  /\ clicked = Pending

UiIdle == SearchIdle /\ AppIdle /\ CardIdle

Init ==
  /\ input \in Inputs
  /\ pc = "ready"
  /\ result = Pending
  /\ again = Pending
  /\ enveloped = Pending
  /\ ConcIdle
  /\ PostIdle
  /\ UiIdle

Normalize ==
  /\ pc = "ready"
  /\ result' = normalizeSearchResponse(input)
  /\ pc' = IF result' = Throw THEN "threw" ELSE "returned"
  /\ UNCHANGED <<input, again, enveloped, concVars, postVars, uiVars>>

NormalizeAgain ==
  /\ pc = "returned"
  /\ again' = normalizeSearchResponse(Obj([items |-> Get(result, "items")]))
  /\ pc' = "again"
  /\ UNCHANGED <<input, result, enveloped, concVars, postVars, uiVars>>

\* the same payload handed over still inside its envelope
NormalizeEnvelope ==
  /\ pc = "returned"
  /\ enveloped = Pending
  /\ enveloped' = normalizeSearchResponse(Envelope(input))
  /\ UNCHANGED <<input, pc, result, again, concVars, postVars, uiVars>>

Next == Normalize \/ NormalizeAgain \/ NormalizeEnvelope

Spec == Init /\ [][Next]_vars

(***************************************************************************)
(* coerceItem on its own: the record is the argument, the returned record  *)
(* the result.                                                             *)
(***************************************************************************)
InitCoerce ==
  /\ input \in CoerceInputs
  /\ pc = "item"
  /\ result = Pending
  /\ again = Pending
  /\ enveloped = Pending
  /\ ConcIdle
  /\ PostIdle
  /\ UiIdle

CoerceItem ==
  /\ pc = "item"
  /\ result' = coerceItem(input)
  /\ pc' = "coerced"
  /\ UNCHANGED <<input, again, enveloped, concVars, postVars, uiVars>>

NextCoerce == CoerceItem

SpecCoerce == InitCoerce /\ [][NextCoerce]_vars

(***************************************************************************)
(* Several calls of normalizeSearchResponse in progress at once.  The      *)
(* payloads live in a heap and a call holds a reference to one of them;    *)
(* two calls may hold the same one.  Every call has a frame of its own for *)
(* its const bindings (candidates, flat, sourceItems, items), and the      *)
(* calls advance one statement at a time in any order.  No statement of   *)
(* the function writes to a payload or to anything outside its frame.      *)
(***************************************************************************)
NumCallers == 2

Callers == 1..NumCallers

Refs == {"p", "q"}

ConcPayloads ==
  {Null,
   Obj([name |-> Str(HotelAlpha), price |-> Num(100)]),
   Obj([items |-> Arr(<<Tag("a"), Obj(NoProps), Tag("b")>>),
        narrative |-> Str(<<"N", "i", "c", "e">>)]),
   Obj([steps |-> TaggedSteps, hotels |-> Arr(<<Tag("x")>>)]),
   Obj([items |-> Arr(<<Null>>)])}

Frame(ref) ==
  [pc |-> "guard", ref |-> ref, candidates |-> Pending, flat |-> Pending,
   sourceItems |-> Pending, items |-> Pending, result |-> Pending,
   overlapped |-> FALSE]

\* a binding shared by all calls instead of one per call
StoreShared(fr, c, name, v) == [k \in DOMAIN fr |-> [fr[k] EXCEPT ![name] = v]]

\* const <name> = v in the frame of call c
StoreLocal(fr, c, name, v) == [fr EXCEPT ![c] = [@ EXCEPT ![name] = v]]

At(fr, c, label) == [fr EXCEPT ![c].pc = label]

\* some other call is between its first statement and its return
OthersRunning(fr, c) ==
  \E d \in DOMAIN fr \ {c} : fr[d].pc \notin {"guard", "done"}

\* call c returns v, or throws when v is Throw
Return(fr, c, v) ==
  [fr EXCEPT ![c].result = v, ![c].pc = "done",
             ![c].overlapped = OthersRunning(fr, c)]

CandidatesStep(fr, c, cands) ==
  IF cands[7] = Throw THEN Return(fr, c, Throw)
  ELSE At(StoreLocal(fr, c, "candidates", FilterTruthy(cands)), c, "flat")

GuardStep(fr, c, in) ==
  IF ~Truthy(in) THEN Return(fr, c, empty)
  ELSE CandidatesStep(fr, c, Candidates(in))

ItemsStep(fr, c, items) ==
  IF items = Throw THEN Return(fr, c, Throw)
  ELSE At(StoreLocal(fr, c, "items", items), c, "return")

InitConcurrent ==
  /\ NormIdle
  /\ PostIdle
  /\ UiIdle
  /\ heap \in [Refs -> ConcPayloads]
  /\ frames \in {[c \in Callers |-> Frame(r[c])] : r \in [Callers -> Refs]}

\* if (!input) return empty(); const candidates = [...].filter(Boolean)
CallGuard(c) ==
  /\ frames[c].pc = "guard"
  /\ frames' = GuardStep(frames, c, heap[frames[c].ref])
  /\ UNCHANGED <<heap, normVars, postVars, uiVars>>

\* const flat = flattenArray(candidates)
CallFlatten(c) ==
  /\ frames[c].pc = "flat"
  /\ frames' = At(StoreLocal(frames, c, "flat", flattenArray(frames[c].candidates)),
                  c, "source")
  /\ UNCHANGED <<heap, normVars, postVars, uiVars>>

\* const sourceItems = flat.length ? flat : ...
CallSource(c) ==
  /\ frames[c].pc = "source"
  /\ frames' = At(StoreLocal(frames, c, "sourceItems",
                             SourceItems(heap[frames[c].ref], frames[c].flat)),
                  c, "items")
  /\ UNCHANGED <<heap, normVars, postVars, uiVars>>

\* const items = sourceItems.map(coerceItem).map(normalizeItem).filter(Boolean)
CallMap(c) ==
  /\ frames[c].pc = "items"
  /\ frames' = ItemsStep(frames, c, MapItems(frames[c].sourceItems))
  /\ UNCHANGED <<heap, normVars, postVars, uiVars>>

\* const meta = extractMeta(input); return {...}
CallReturn(c) ==
  /\ frames[c].pc = "return"
  /\ frames' = Return(frames, c, Response(frames[c].items,
                                          extractMeta(heap[frames[c].ref])))
  /\ UNCHANGED <<heap, normVars, postVars, uiVars>>

NextConcurrent ==
  \E c \in Callers :
    CallGuard(c) \/ CallFlatten(c) \/ CallSource(c) \/ CallMap(c) \/ CallReturn(c)

SpecConcurrent == InitConcurrent /\ [][NextConcurrent]_vars

(***************************************************************************)
(* postJSON (frontend/src/api/rpc.js): one call, from its loop test to its *)
(* settling.  A fetch attempt ends in a response or in an exception; the   *)
(* errors carry the number of the attempt they arose in.                   *)
(***************************************************************************)
MaxRetries == 3

\* the options argument: left out, without retries, or with a retry count
OptionsGiven ==
  {Undefined, Obj(NoProps)} \cup {Obj([retries |-> Num(n)]) : n \in -1..MaxRetries}

\* the destructured parameter retries = 0
Retries ==
  IF Get(options, "retries") = Undefined THEN 0 ELSE Get(options, "retries").n

\* a payload a tool answers with
ToolPayload == Obj([hotels |-> Arr(<<>>)])

HiText == Str(<<"h", "i">>)

RpcError == Obj([code |-> Num(-32000), message |-> Str(<<"b", "o", "o", "m">>)])

\* the value of result in a JSON-RPC response body
ToolResults ==
  {Null, Num(0), Str(<<>>), Str(<<"p", "l", "a", "i", "n">>), Obj(NoProps),
   Obj([content |-> Arr(<<>>)]),
   Obj([content |-> Arr(<<Obj([json |-> ToolPayload])>>)]),
   Obj([content |-> Arr(<<Obj([text |-> HiText]), Obj([json |-> ToolPayload])>>)]),
   Obj([content |-> Arr(<<Obj([text |-> HiText])>>)]),
   Obj([content |-> Arr(<<Obj([type |-> HiText])>>)]),
   Obj([content |-> Arr(<<Obj([json |-> Null]), Obj([text |-> HiText])>>)]),
   Obj([content |-> Arr(<<Obj([text |-> Str(<<>>)])>>)]),
   Obj([content |-> Arr(<<Null>>)])}

\* the parsed body of an ok response
ToolBodies ==
  {Null, Obj(NoProps), Obj([error |-> RpcError]),
   Obj([error |-> RpcError,
        result |-> Obj([content |-> Arr(<<Obj([json |-> ToolPayload])>>)])]),
   Obj([error |-> Null,
        result |-> Obj([content |-> Arr(<<Obj([json |-> ToolPayload])>>)])])}
    \cup {Obj([result |-> r]) : r \in ToolResults}

\* how one fetch attempt ends: in a response (status, kind of body text, the
\* parsed body), in the abort by the timeout timer (rejecting with the abort
\* reason, or with an AbortError where the reason is not passed on), or in a
\* network failure
Outcome(kind, name, status, text, data) ==
  [kind |-> kind, name |-> name, status |-> status, text |-> text, data |-> data]

Outcomes ==
  {Outcome("response", "", 200, "json", d) : d \in ToolBodies}
    \cup {Outcome("response", "", st, "json", Obj(NoProps)) : st \in {404, 500, 599}}
    \cup {Outcome("response", "", st, "empty", Obj(NoProps)) : st \in {200, 503}}
    \cup {Outcome("response", "", st, "nonjson", Undefined) : st \in {200, 404, 502}}
    \cup {Outcome("response", "", 504, "says timed out", Obj(NoProps)),
          Outcome("abort", "Error", 0, "", Undefined),
          Outcome("abort", "AbortError", 0, "", Undefined),
          Outcome("network", "TypeError", 0, "", Undefined)}

\* res.ok
ResOk(o) == o.status >= 200 /\ o.status <= 299

\* the attempt reaches return { data, status, requestId }
Succeeds(o) == o.kind = "response" /\ o.text # "nonjson" /\ ResOk(o)

\* the exception an attempt that does not return throws into the catch block
Thrown(o) ==
  IF o.kind = "abort"
  THEN [name |-> o.name, status |-> 0,
        message |-> IF o.name = "Error" THEN "Request timed out"
                    ELSE "The operation was aborted"]
  ELSE IF o.kind = "network"
  THEN [name |-> "TypeError", status |-> 0, message |-> "Failed to fetch"]
  ELSE IF o.text = "nonjson"
  THEN [name |-> "Error", status |-> 0, message |-> "Non-JSON response"]
  ELSE [name |-> "Error", status |-> o.status,
        message |-> IF o.text = "says timed out" THEN "Endpoint request timed out"
                    ELSE "HTTP error"]

\* what one attempt can throw into the catch block
Failures == {Thrown(o) : o \in {oo \in Outcomes : ~Succeeds(oo)}}

\* /timed out/i.test(message), for the messages above
SaysTimedOut(message) ==
  message \in {"Request timed out", "Endpoint request timed out"}

\* e?.name === "AbortError" || /timed out/i.test(String(e?.message || ""))
IsAbort(e) == e.name = "AbortError" \/ SaysTimedOut(e.message)

\* e?.status && e.status >= 500 && e.status <= 599
Is5xx(e) == e.status # 0 /\ e.status >= 500 /\ e.status <= 599

\* lastErr = isAbort ? new Error("Request timed out") : e
LastErrOf(e, att) ==
  IF IsAbort(e)
  THEN [name |-> "Error", status |-> 0, message |-> "Request timed out",
        attempt |-> att]
  ELSE [name |-> e.name, status |-> e.status, message |-> e.message,
        attempt |-> att]

\* the retry test, passing also on the last allowed attempt
ShouldRetryInclusive(att, r, e) == att <= r /\ Is5xx(e)

\* the retry test, passing for every error
ShouldRetryAnyError(att, r, e) == att < r

\* if (attempt < retries && is5xx)
ShouldRetry(att, r, e) == att < r /\ Is5xx(e)

\* clearTimeout that clears nothing
ClearNothing(armed, t) == armed

\* clearTimeout(timer), the timer being the one of attempt t
ClearTimeout(armed, t) == armed \ {t}

\* an exception leaving callTool
Thrower(message) == [t |-> "throw", message |-> message]

\* Object.prototype.hasOwnProperty.call(it, k); null and undefined cannot be
\* converted to an object, and the call throws a TypeError
HasOwn(it, k) ==
  IF IsNullish(it) THEN Throw ELSE Bool(it.t = "object" /\ k \in DOMAIN it.o)

\* items.find(it => hasOwnProperty.call(it, k)): the first item with its own
\* k, undefined when there is none, Throw when the callback throws first
RECURSIVE FindOwn(_, _)
FindOwn(items, k) ==
  IF items = <<>> THEN Undefined
  ELSE IF HasOwn(Head(items), k) = Throw THEN Throw
  ELSE IF HasOwn(Head(items), k).b THEN Head(items)
  ELSE FindOwn(Tail(items), k)

PickText(r, textItem) ==
  IF textItem = Throw THEN Throw
  ELSE IF Truthy(textItem) THEN Get(textItem, "text")
  ELSE r

PickJson(r, items, jsonItem) ==
  IF jsonItem = Throw THEN Throw
  ELSE IF Truthy(jsonItem) THEN Get(jsonItem, "json")
  ELSE PickText(r, FindOwn(items, "text"))

\* function pickContent(result)
pickContent(r) ==
  IF IsArray(Get(r, "content")) /\ Get(r, "content").a # <<>>
  THEN PickJson(r, Get(r, "content").a, FindOwn(Get(r, "content").a, "json"))
  ELSE CoalesceChain(<<r>>, Null)

\* if (!result) throw new Error("Empty MCP result content"); return result
ReturnPicked(picked) ==
  IF picked = Throw THEN Thrower("TypeError")
  ELSE IF ~Truthy(picked) THEN Thrower("Empty MCP result content")
  ELSE picked

\* callTool after postJSON has returned { data }
callToolOn(data) ==
  IF Truthy(Get(data, "error")) THEN Thrower("MCP error")
  ELSE ReturnPicked(pickContent(Get(data, "result")))

InitPost ==
  /\ NormIdle
  /\ ConcIdle
  /\ UiIdle
  /\ options \in OptionsGiven
  /\ attempt = 0
  /\ fetches = 0
  /\ ppc = "loop"
  /\ lastErr = Undefined
  /\ outcome = Pending
  /\ res = Pending
  /\ timers = {}
  /\ tool = Pending

\* while (attempt <= retries) { const timer = setTimeout(...); await fetch(...)
EnterLoop ==
  /\ ppc = "loop"
  /\ attempt <= Retries
  /\ fetches' = fetches + 1
  /\ timers' = timers \cup {attempt}
  /\ ppc' = "fetching"
  /\ UNCHANGED <<options, attempt, lastErr, outcome, res, tool, normVars, concVars, uiVars>>

\* the loop test fails: throw lastErr after the loop
LeaveLoop ==
  /\ ppc = "loop"
  /\ ~(attempt <= Retries)
  /\ ppc' = "rejected"
  /\ outcome' = lastErr
  /\ UNCHANGED <<options, attempt, fetches, lastErr, res, timers, tool,
                 normVars, concVars, uiVars>>

\* an ok response with a JSON or empty body: return { data, status,
\* requestId }, the finally block clearing the timer
FetchResolves ==
  /\ ppc = "fetching"
  /\ \E o \in Outcomes :
       /\ Succeeds(o)
       /\ res' = o
       /\ outcome' = [data |-> o.data, status |-> o.status, attempt |-> attempt]
  /\ timers' = ClearTimeout(timers, attempt)
  /\ ppc' = "resolved"
  /\ UNCHANGED <<options, attempt, fetches, lastErr, tool, normVars, concVars, uiVars>>

\* the catch block: clear the timer (the abort has fired it already), then
\* wait for the retry delay, or throw lastErr through the finally block
FetchFails ==
  /\ ppc = "fetching"
  /\ \E o \in Outcomes :
       /\ ~Succeeds(o)
       /\ res' = o
       /\ lastErr' = LastErrOf(Thrown(o), attempt)
       /\ IF ShouldRetry(attempt, Retries, Thrown(o))
          THEN ppc' = "backoff" /\ outcome' = outcome
          ELSE ppc' = "rejected" /\ outcome' = lastErr'
  /\ timers' = ClearTimeout(timers, attempt)
  /\ UNCHANGED <<options, attempt, fetches, tool, normVars, concVars, uiVars>>

\* the delay is over: attempt++; continue, through the finally block
BackoffElapsed ==
  /\ ppc = "backoff"
  /\ timers' = ClearTimeout(timers, attempt)
  /\ attempt' = attempt + 1
  /\ ppc' = "loop"
  /\ UNCHANGED <<options, fetches, lastErr, outcome, res, tool, normVars, concVars, uiVars>>

\* callTool goes on after await postJSON(...): the rejection passes through,
\* the data of a returned exchange is examined
CallToolSettles ==
  /\ ppc \in {"resolved", "rejected"}
  /\ tool = Pending
  /\ tool' = IF ppc = "rejected" THEN Thrower("postJSON rejected")
             ELSE callToolOn(outcome.data)
  /\ UNCHANGED <<options, attempt, fetches, ppc, lastErr, outcome, res, timers,
                 normVars, concVars, uiVars>>

NextPost ==
  \/ EnterLoop \/ LeaveLoop \/ FetchResolves \/ FetchFails \/ BackoffElapsed
  \/ CallToolSettles

SpecPost == InitPost /\ [][NextPost]_vars

(***************************************************************************)
(* searchHotels (frontend/src/api/searchHotels.js): one call, from the     *)
(* choice of the path to the settling of the promise it returns.  callTool *)
(* is the boundary: the model counts its invocations, keeps the arguments  *)
(* it was given and lets it resolve or reject.                             *)
(***************************************************************************)
UpperChar(c) ==
  IF \E i \in 1..26 : LowerChars[i] = c
  THEN UpperChars[CHOOSE i \in 1..26 : LowerChars[i] = c]
  ELSE c

toUpperCase(s) == [i \in 1..Len(s) |-> UpperChar(s[i])]

Trim(s) == TrimRight(TrimLeft(s))

StartsWith(s, p) == Len(p) <= Len(s) /\ SubSeq(s, 1, Len(p)) = p

\* the map of toCityCode; the empty string where the name is no key of it
CityMap(s) ==
  CASE s = <<"L", "O", "N", "D", "O", "N">> -> <<"L", "O", "N">>
    [] s = <<"P", "A", "R", "I", "S">> -> <<"P", "A", "R">>
    [] s = <<"N", "E", "W", " ", "Y", "O", "R", "K">> -> <<"N", "Y", "C">>
    [] s = <<"L", "O", "S", " ", "A", "N", "G", "E", "L", "E",
        "S">> -> <<"L", "A", "X">>
    [] s = <<"D", "U", "B", "A", "I">> -> <<"D", "X", "B">>
    [] s = <<"S", "I", "N", "G", "A", "P", "O", "R", "E">> -> <<"S", "I",
        "N">>
    [] OTHER -> <<>>

\* if (s.length === 3) return s; return map[s] || s.slice(0, 3)
CityCodeOf(s) ==
  IF Len(s) = 3 THEN s
  ELSE IF CityMap(s) # <<>> THEN CityMap(s)
  ELSE SubSeq(s, 1, IF Len(s) < 3 THEN Len(s) ELSE 3)

toCityCode(in) == CityCodeOf(toUpperCase(Trim(in)))

CITY_CURRENCY(key) ==
  CASE key = <<"P", "A", "R">> -> Str(<<"E", "U", "R">>)
    [] key = <<"L", "O", "N">> -> Str(<<"G", "B", "P">>)
    [] key = <<"N", "Y", "C">> -> Str(<<"U", "S", "D">>)
    [] key = <<"R", "O", "M">> -> Str(<<"E", "U", "R">>)
    [] key = <<"A", "M", "S">> -> Str(<<"E", "U", "R">>)
    [] key = <<"B", "C", "N">> -> Str(<<"E", "U", "R">>)
    [] key = <<"D", "X", "B">> -> Str(<<"A", "E", "D">>)
    [] key = <<"S", "I", "N">> -> Str(<<"S", "G", "D">>)
    [] OTHER -> Undefined

getCurrencyForCityCode(code) ==
  IF code = <<>> THEN Undefined ELSE CITY_CURRENCY(toUpperCase(Trim(code)))

\* the positions of the character c in s
SepAt(s, c) == SelectSeq([i \in 1..Len(s) |-> i], LAMBDA i : s[i] = c)

\* the j-th separator of pos, with 0 before the first and n + 1 after the last
SepBound(pos, j, n) ==
  IF j = 0 THEN 0 ELSE IF j > Len(pos) THEN n + 1 ELSE pos[j]

SplitAt(s, pos) ==
  [j \in 1..(Len(pos) + 1) |->
     SubSeq(s, SepBound(pos, j - 1, Len(s)) + 1, SepBound(pos, j,
         Len(s)) - 1)]

\* s.split(c)
Split(s, c) == SplitAt(s, SepAt(s, c))

\* \d{lo,hi}
DigitsIn(s, lo, hi) == Len(s) \in lo..hi /\ \A i \in 1..Len(s) : s[i] \in Digits

DMYParts(p) ==
  Len(p) = 3 /\ DigitsIn(p[1], 1, 2) /\ DigitsIn(p[2], 1,
      2) /\ DigitsIn(p[3], 4, 4)

\* /^\d{1,2}\/\d{1,2}\/\d{4}$/
IsDMY(s) == DMYParts(Split(s, "/"))

YMDParts(p) ==
  Len(p) = 3 /\ DigitsIn(p[1], 4, 4) /\ DigitsIn(p[2], 1,
      2) /\ DigitsIn(p[3], 1, 2)

\* /^\d{4}-\d{1,2}-\d{1,2}$/
IsYMD(s) == YMDParts(Split(s, "-"))

\* /^\d{4}-\d{1,2}-\d{1,2}T/: the date takes 8 to 10 characters
IsIsoWithTime(s) ==
  \E k \in 9..11 : k <= Len(s) /\ s[k] = "T" /\ IsYMD(SubSeq(s, 1, k - 1))

\* padStart(2, "0")
PadStart2(s) ==
  IF Len(s) >= 2 THEN s ELSE IF Len(s) = 1 THEN <<"0">> \o s ELSE <<"0", "0">>

\* `${y}-${m.padStart(2, "0")}-${d.padStart(2, "0")}`
YMDText(y, m, d) == y \o <<"-">> \o PadStart2(m) \o <<"-">> \o PadStart2(d)

FromDMY(p) == YMDText(p[3], p[2], p[1])

FromYMD(p) == YMDText(p[1], p[2], p[3])

toYMDTrimmed(s) ==
  IF s = <<>> THEN <<>>
  ELSE IF IsDMY(s) THEN FromDMY(Split(s, "/"))
  ELSE IF IsIsoWithTime(s) THEN SubSeq(s, 1,
      IF Len(s) < 10 THEN Len(s) ELSE 10)
  ELSE IF IsYMD(s) THEN FromYMD(Split(s, "-"))
  ELSE s

\* function toYMD(input)
toYMD(in) ==
  IF ~Truthy(in) \/ in.t # "string" THEN Str(<<>>) ELSE Str(toYMDTrimmed(Trim(in.s)))

\* /(?:\d{4}-\d{1,2}-\d{1,2}|\d{1,2}\/\d{1,2}\/\d{4})/.test(t)
HasDateToken(t) ==
  \E i \in 1..Len(t) : \E j \in i..Len(t) :
    IsYMD(SubSeq(t, i, j)) \/ IsDMY(SubSeq(t, i, j))

\* hasLikeDate accepting any string that is not blank
hasLikeDateAnyText(s) == s.t = "string" /\ Trim(s.s) # <<>>

\* function hasLikeDate(s)
hasLikeDate(s) == s.t = "string" /\ Trim(s.s) # <<>> /\ HasDateToken(Trim(s.s))

\* the length of the run of digits of s that starts at position i
DigitRunLen(s, i) ==
  IF \E j \in i..Len(s) : s[j] \notin Digits
  THEN (CHOOSE j \in i..Len(s) :
          s[j] \notin Digits /\ \A k \in i..(j - 1) : s[k] \in Digits) - i
  ELSE Len(s) - i + 1

Infinity == [t |-> "Infinity"]

FloatBody(s) == IF s # <<>> /\ Head(s) \in {"+", "-"} THEN Tail(s) ELSE s

FloatSign(s) == IF s # <<>> /\ Head(s) = "-" THEN 0 - 1 ELSE 1

\* the digits after the point that follows the n leading digits of b
FloatFraction(b, n) ==
  IF n < Len(b) /\ b[n + 1] = "." THEN SubSeq(b, n + 2,
      n + 1 + DigitRunLen(b, n + 2))
  ELSE <<>>

FloatOf(b, n, sign) ==
  IF StartsWith(b, <<"I", "n", "f", "i", "n", "i", "t", "y">>) THEN Infinity
  ELSE ParseDigits(SubSeq(b, 1, n), FloatFraction(b, n), sign)

FloatOfBody(b, sign) == FloatOf(b, DigitRunLen(b, 1), sign)

FloatOfTrimmed(s) == FloatOfBody(FloatBody(s), FloatSign(s))

\* Number.parseFloat(s): white space, then the longest prefix that is a
\* decimal literal; NaN when there is none.  (The strings of this model
\* carry no exponent.)
parseFloat(s) == FloatOfTrimmed(TrimLeft(s))

\* hasRealBudget without the test for a positive number
hasRealBudgetAnySign(budgetStr, budgetNum) ==
  budgetStr # <<>> /\ budgetStr # <<"0">> /\ budgetNum.t = "number"

\* const hasRealBudget = budgetStr !== "" && budgetStr !== "0" &&
\*   Number.isFinite(budgetNum) && budgetNum > 0
hasRealBudget(budgetStr, budgetNum) ==
  budgetStr # <<>> /\ budgetStr # <<"0">> /\ budgetNum.t = "number" /\ budgetNum.n > 0

\* hasQuery && !payload.stay
QueryPath(p) == Truthy(Get(p, "query")) /\ ~Truthy(Get(p, "stay"))

\* const stay = payload.stay ?? {}
StayOf(p) == CoalesceChain(<<Get(p, "stay")>>, Obj(NoProps))

\* stay.check_in ?? payload.check_in ?? ""
CheckInGiven(p) ==
  CoalesceChain(<<Get(StayOf(p), "check_in"), Get(p, "check_in")>>, Str(<<>>))

\* stay.check_out ?? payload.check_out ?? ""
CheckOutGiven(p) ==
  CoalesceChain(<<Get(StayOf(p), "check_out"), Get(p, "check_out")>>,
      Str(<<>>))

\* String(payload.city_code ?? stay.city_code ?? "").trim()
CityCodeInput(p) ==
  Trim(ToChars(CoalesceChain(<<Get(p, "city_code"), Get(StayOf(p),
      "city_code")>>,
                             Str(<<>>))))

RECURSIVE TenTo(_)
TenTo(d) == IF d = 0 THEN 1 ELSE 10 * TenTo(d - 1)

\* Math.trunc
Trunc(v) ==
  IF v.n >= 0 THEN Num(v.n \div TenTo(v.d)) ELSE Num(0 - ((0 - v.n) \div TenTo(v.d)))

\* Number.isFinite(n) ? Math.max(1, Math.trunc(n)) : 2
AdultsOf(n) ==
  IF n.t # "number" THEN Num(2)
  ELSE IF Trunc(n).n < 1 THEN Num(1) ELSE Trunc(n)

Adults(p) ==
  AdultsOf(ToNumber(CoalesceChain(<<Get(p, "adults"), Get(StayOf(p),
      "adults")>>,
                                  Num(2))))

\* import.meta.env.VITE_DEFAULT_CURRENCY, not set in this build
VITE_DEFAULT_CURRENCY == Undefined

Currency(p, city) ==
  Str(toUpperCase(Trim(ToChars(
    OrChain(<<Get(StayOf(p), "currency"), getCurrencyForCityCode(city),
              Get(p, "currency"), VITE_DEFAULT_CURRENCY>>, Str(<<"G", "B",
                  "P">>))))))

\* the mismatch test reaches payload.currency.toUpperCase(), which is no
\* function unless payload.currency is a string
MismatchTestThrows(p, city) ==
  /\ ~Truthy(Get(StayOf(p), "currency"))
  /\ Truthy(getCurrencyForCityCode(city))
  /\ Truthy(Get(p, "currency"))
  /\ Get(p, "currency").t # "string"

\* payload.maxPrice ?? stay.max_price ?? stay.max_price_gbp ?? undefined
RawBudget(p) ==
  CoalesceChain(<<Get(p, "maxPrice"), Get(StayOf(p), "max_price"),
                  Get(StayOf(p), "max_price_gbp")>>, Undefined)

\* String(rawBudget || "").trim()
BudgetStr(p) == Trim(ToChars(OrChain(<<RawBudget(p)>>, Str(<<>>))))

BudgetNum(p) == parseFloat(BudgetStr(p))

StayArgs(p, city) ==
  [check_in |-> toYMD(CheckInGiven(p)),
   check_out |-> toYMD(CheckOutGiven(p)),
   city_code |-> Str(city),
   adults |-> Adults(p),
   currency |-> Currency(p, city),
   wants_indoor_pool |->
     Bool(Truthy(CoalesceChain(<<Get(p, "wantsIndoorPool"),
                                 Get(StayOf(p),
                                     "wants_indoor_pool")>>, Undefined)))]

\* if (hasRealBudget) { toolArgs.stay.max_price = budgetNum; ... }
BudgetArgs(budgetStr, budgetNum) ==
  IF hasRealBudget(budgetStr, budgetNum)
  THEN [max_price |-> budgetNum, max_price_gbp |-> budgetNum]
  ELSE NoProps

StructuredArgs(p, city) ==
  Obj([stay |-> Obj(Merge(StayArgs(p, city), BudgetArgs(BudgetStr(p),
      BudgetNum(p)))),
       top_n |-> CoalesceChain(<<Get(p, "topN")>>, Num(5)),
       use_responder |-> Bool(TRUE)])

\* what the synchronous part of searchHotels comes to: a rejection, or a call
\* of runHotelSearch (and so of callTool) with tool arguments
Rejection(message) == [kind |-> "reject", error |-> Thrower(message)]

ToolCall(args, timeoutMs) ==
  [kind |-> "call", args |-> args, timeoutMs |-> timeoutMs]

StructuredPlan(p, city) ==
  IF ~hasLikeDate(toYMD(CheckInGiven(p))) THEN Rejection("Check-in date is required")
  ELSE IF ~hasLikeDate(toYMD(CheckOutGiven(p)))
  THEN Rejection("Check-out date is required")
  ELSE IF city = <<>> THEN Rejection("Provide city_code (e.g., PAR or LON).")
  ELSE IF MismatchTestThrows(p, city) THEN Rejection("TypeError")
  ELSE ToolCall(StructuredArgs(p, city), 20000)

PathOf(p) ==
  IF p.t = "null" THEN Rejection("TypeError")
  ELSE IF QueryPath(p) THEN ToolCall(Obj([query |-> Get(p, "query")]), 30000)
  ELSE StructuredPlan(p, toCityCode(CityCodeInput(p)))

\* async function searchHotels(payload = {}), up to its first await
searchHotels(p) == PathOf(IF p = Undefined THEN Obj(NoProps) ELSE p)

\* res?.content?.[0]?.json ?? res ?? {}
RawOf(r) ==
  CoalesceChain(<<Get(Index0(Get(r, "content")), "json"), r>>, Obj(NoProps))

WithRaw(normalized, raw) ==
  IF normalized = Throw THEN Thrower("TypeError")
  ELSE Obj(Merge(Prop("_raw", raw), normalized.o))

\* runHotelSearch once callTool has resolved with r
runHotelSearch(r) == WithRaw(normalizeSearchResponse(RawOf(r)), RawOf(r))

(***************************************************************************)
(* The payloads searchHotels is called with.                               *)
(***************************************************************************)
GoodCheckIn == Str(<<"2", "0", "2", "5", "-", "0", "9", "-", "0", "1">>)

GoodCheckOut == Str(<<"2", "0", "2", "5", "-", "0", "9", "-", "0", "5">>)

\* values met as a check-in or a check-out date
DateValues ==
  {Undefined, Null, Str(<<>>), Str(<<" ", " ">>), GoodCheckIn,
   Str(<<"1", "/", "9", "/", "2", "0", "2", "5">>),
   Str(<<"2", "0", "2", "5", "-", "9", "-", "1">>),
   Str(<<"2", "0", "2", "5", "-", "9", "-", "1", "T", "1", "0", ":", "0",
   "0">>), Str(<<"2", "0", "2", "5", "-", "1", "-", "5", "T">>), Str(<<"2",
   "0", "2", "5", "-", "0", "9", "-", "0", "1", "T", "1", "0", ":", "0", "0",
   ":", "0", "0", "Z">>),
   Str(<<" ", "2", "0", "2", "5", "-", "0", "9", "-", "0", "5", " ">>),
   Str(<<"t", "o", "m", "o", "r", "r", "o", "w">>),
   Str(<<"2", "0", "2", "5", "-", "0", "9">>),
   Str(<<"1", "/", "9", "/", "2", "5">>),
   Str(<<"o", "n", " ", "2", "0", "2", "5", "-", "9", "-", "1", " ", "p",
   "m">>), Num(20250901), Bool(TRUE)}

\* values met as a city code
CityValues ==
  {Undefined, Null, Str(<<>>), Str(<<" ", " ">>), Str(<<"P", "A", "R">>),
   Str(<<"P", "a", "r", "i", "s">>),
   Str(<<"l", "o", "n">>), Str(<<"A", "t", "l", "a", "n", "t", "i", "s">>),
   Num(7)}

\* values met as a budget
BudgetValues ==
  {Undefined, Null, Num(200), Num(0), Num(0 - 5), Dec(995, 1), Str(<<>>),
   Str(<<"0">>), Str(<<"1", "5", "0">>), Str(<<" ", "8", "0", " ">>),
   Str(<<"9", "9", ".", "5">>), Str(<<"0", ".", "0">>),
   Str(<<"-", "5">>), Str(<<"a", "b", "c">>),
   Str(<<"2", "0", "0", "a", "b", "c">>),
   Str(<<"I", "n", "f", "i", "n", "i", "t", "y">>), Bool(TRUE), NaN}

QueryText == Str(<<"s", "p", "a">>)

GoodStay == [check_in |-> GoodCheckIn, check_out |-> GoodCheckOut]

\* the properties naming k as v, none when v is undefined
Given(k, v) == IF v = Undefined THEN NoProps ELSE Prop(k, v)

\* the dates vary, in the stay or at the top of the payload
DatePayloads ==
  {Obj([stay |-> Obj(Merge(Given("check_in", ci), Given("check_out", co))),
        city_code |-> Str(<<"P", "A", "R">>)]) : ci \in DateValues,
            co \in DateValues}
    \cup {Obj(Merge(Given("check_in", ci),
                    [check_out |-> GoodCheckOut,
                        city_code |-> Str(<<"L", "O", "N">>)])) :
            ci \in DateValues}
    \cup {Obj(Merge(Given("check_in", ci),
                    [stay |-> Obj([check_in |-> top,
                        check_out |-> GoodCheckOut]),
                     city_code |-> Str(<<"L", "O", "N">>)])) :
            ci \in {GoodCheckIn,
                Str(<<"t", "o", "m", "o", "r", "r", "o", "w">>)},
                top \in {Null, Str(<<>>)}}

\* the city code varies, at the top of the payload or in the stay
CityPayloads ==
  {Obj(Merge(Given("city_code", c),
   [stay |-> Obj(GoodStay)])) : c \in CityValues}
    \cup {Obj([stay |-> Obj(Merge(Given("city_code", c),
        GoodStay))]) : c \in CityValues}
    \cup {Obj([city_code |-> Str(<<>>),
               stay |-> Obj(Merge(Prop("city_code", Str(<<"P", "A", "R">>)),
                   GoodStay))])}

\* the budget varies, in each of its three places
BudgetPayloads ==
  {Obj(Merge(Given("maxPrice", b),
             [stay |-> Obj(Merge(Given(k, s), GoodStay)),
                 city_code |-> Str(<<"P", "A", "R">>)])) :
     b \in BudgetValues, k \in {"max_price", "max_price_gbp"},
     s \in {Undefined, Null, Num(120), Str(<<"a", "b", "c">>)}}
    \cup {Obj([stay |-> Obj(Merge([max_price |-> b,
        max_price_gbp |-> Num(300)],
                                  GoodStay)),
               city_code |-> Str(<<"P", "A", "R">>)]) : b \in BudgetValues}

\* the other members of a payload
OtherPayloads ==
  {Undefined, Null, Obj(NoProps), Obj([query |-> QueryText]),
   Obj([query |-> QueryText, city_code |-> Str(<<"P", "A", "R">>)]),
   Obj([query |-> QueryText, stay |-> Obj(GoodStay),
       city_code |-> Str(<<"P", "A", "R">>)]),
   Obj([query |-> QueryText, stay |-> Obj(NoProps)]),
   Obj([query |-> QueryText, stay |-> Obj([check_in |-> GoodCheckIn])]),
   Obj([query |-> Str(<<>>), city_code |-> Str(<<"P", "A", "R">>)]),
   Obj([stay |-> Str(<<"s", "o", "o", "n">>),
       city_code |-> Str(<<"P", "A", "R">>)]),
   Obj([stay |-> Obj(GoodStay), city_code |-> Str(<<"P", "A", "R">>),
       currency |-> Num(5)]),
   Obj([stay |-> Obj(GoodStay), city_code |-> Str(<<"X", "Y", "Z">>),
       currency |-> Str(<<"u", "s", "d">>)]),
   Obj([stay |-> Obj(Merge([currency |-> Str(<<"c", "h", "f">>),
       adults |-> Dec(25, 1),
                            wants_indoor_pool |-> Bool(TRUE)], GoodStay)),
        city_code |-> Str(<<"L", "O", "N">>), topN |-> Num(3)]),
   Obj([stay |-> Obj(GoodStay), city_code |-> Str(<<"L", "O", "N">>),
       adults |-> Num(0),
        wantsIndoorPool |-> Bool(FALSE)]),
   Obj([stay |-> Obj(GoodStay), city_code |-> Str(<<"L", "O", "N">>),
       adults |-> Str(<<"t", "w", "o">>)])}

SearchPayloads == DatePayloads \cup CityPayloads \cup BudgetPayloads \cup OtherPayloads

\* what callTool resolves with
ToolReturns ==
  {Obj([hotels |-> Arr(<<Obj([name |-> Str(HotelAlpha),
   price |-> Num(100)])>>),
        narrative |-> Str(BetaHouse)]),
   Obj([content |-> Arr(<<Obj([json |-> Obj([hotels |-> Arr(<<>>)])])>>)]),
   Str(<<"h", "i">>)}

\* what callTool rejects with
ToolErrors ==
  {Thrower("Request timed out"), Thrower("Empty MCP result content"),
   Thrower("")}

InitSearch ==
  /\ NormIdle
  /\ ConcIdle
  /\ PostIdle
  /\ AppIdle
  /\ CardIdle
  /\ payload \in SearchPayloads
  /\ spc = "called"
  /\ toolArgs = Pending
  /\ calls = 0
  /\ found = Pending

\* a validation of searchHotels throws: the promise is rejected
SearchRejects ==
  /\ spc = "called"
  /\ searchHotels(payload).kind = "reject"
  /\ spc' = "rejected"
  /\ found' = searchHotels(payload).error
  /\ UNCHANGED <<payload, toolArgs, calls, apiVars, appVars, cardVars>>

\* runHotelSearch is reached and invokes callTool with the tool arguments
SearchCallsTool ==
  /\ spc = "called"
  /\ searchHotels(payload).kind = "call"
  /\ spc' = "awaiting"
  /\ toolArgs' = searchHotels(payload).args
  /\ calls' = calls + 1
  /\ UNCHANGED <<payload, found, apiVars, appVars, cardVars>>

Settled(o) == IF o.t = "throw" THEN "rejected" ELSE "resolved"

\* callTool resolves and runHotelSearch normalizes what it returned
ToolResolves ==
  /\ spc = "awaiting"
  /\ \E r \in ToolReturns :
       /\ found' = runHotelSearch(r)
       /\ spc' = Settled(runHotelSearch(r))
  /\ UNCHANGED <<payload, toolArgs, calls, apiVars, appVars, cardVars>>

\* callTool rejects, and so does searchHotels
ToolRejects ==
  /\ spc = "awaiting"
  /\ \E e \in ToolErrors : found' = e
  /\ spc' = "rejected"
  /\ UNCHANGED <<payload, toolArgs, calls, apiVars, appVars, cardVars>>

NextSearch == SearchRejects \/ SearchCallsTool \/ ToolResolves \/ ToolRejects

SpecSearch == InitSearch /\ [][NextSearch]_vars

(***************************************************************************)
(* App (frontend/src/App.jsx): the search form, the button and doSearch.   *)
(* The component state is the record app (loading, err, data); form holds  *)
(* the fields doSearch reads.  A run of doSearch goes from the click to    *)
(* the end of its finally block, with searchHotels as modelled above.      *)
(***************************************************************************)
MaxRuns == 2

\* /^[A-Z]{3}$/
IsIata(s) == Len(s) = 3 /\ \A i \in 1..3 : \E j \in 1..26 : UpperChars[j] = s[i]

\* (city || "").trim().toUpperCase()
CityUpper(f) == toUpperCase(Trim(ToChars(OrChain(<<f.city>>, Str(<<>>)))))

\* CITY_TO_IATA[cityUpper] || cityUpper.slice(0, 3) unless cityUpper is a code
IataOf(s) ==
  IF IsIata(s) THEN s
  ELSE IF CityMap(s) # <<>> THEN CityMap(s)
  ELSE SubSeq(s, 1, IF Len(s) < 3 THEN Len(s) ELSE 3)

\* getCurrencyForCityCode of App.jsx: cityToCurrencyMap[code] || "GBP"
destinationCurrency(code) ==
  CASE code \in {<<"P", "A", "R">>, <<"R", "O", "M">>, <<"B", "C", "N">>,
      <<"A", "M", "S">>, <<"B", "E", "R">>,
      <<"V", "I", "E">>} -> Str(<<"E", "U", "R">>)
    [] code \in {<<"N", "Y", "C">>, <<"L", "A", "X">>,
        <<"M", "I", "A">>} -> Str(<<"U", "S", "D">>)
    [] code = <<"Z", "U", "R">> -> Str(<<"C", "H", "F">>)
    [] code = <<"D", "X", "B">> -> Str(<<"A", "E", "D">>)
    [] code = <<"D", "O", "H">> -> Str(<<"Q", "A", "R">>)
    [] code = <<"R", "U", "H">> -> Str(<<"S", "A", "R">>)
    [] code = <<"Y", "Y", "Z">> -> Str(<<"C", "A", "D">>)
    [] code = <<"N", "R", "T">> -> Str(<<"J", "P", "Y">>)
    [] code = <<"S", "I", "N">> -> Str(<<"S", "G", "D">>)
    [] code = <<"H", "K", "G">> -> Str(<<"H", "K", "D">>)
    [] code = <<"B", "K", "K">> -> Str(<<"T", "H", "B">>)
    [] OTHER -> Str(<<"G", "B", "P">>)

\* String(budget || "").trim()
FormBudgetStr(f) == Trim(ToChars(OrChain(<<f.budget>>, Str(<<>>))))

FormStay(f, code) ==
  [check_in |-> f.checkIn, check_out |-> f.checkOut, city_code |-> Str(code),
   adults |-> Num(2), currency |-> destinationCurrency(IataOf(CityUpper(f))),
   wants_indoor_pool |-> Bool(f.indoorPool)]

\* the payload of the planner route
PlannerPayload(f) ==
  Obj([stay |-> Obj(Merge(FormStay(f, IataOf(CityUpper(f))),
                          BudgetArgs(FormBudgetStr(f),
                              parseFloat(FormBudgetStr(f))))),
       topN |-> Num(5)])

\* the payload of the structured route
StructuredPayload(f) ==
  Obj([stay |-> Obj(Merge(FormStay(f, CityUpper(f)),
                          BudgetArgs(FormBudgetStr(f),
                              parseFloat(FormBudgetStr(f)))))])

PayloadOf(f) == IF f.usePlanner THEN PlannerPayload(f) ELSE StructuredPayload(f)

\* the structured route refuses a city that is no 3-letter code
RouteThrows(f) == ~f.usePlanner /\ ~IsIata(CityUpper(f))

\* setLoading(true); setErr("")
Started(st) == [st EXCEPT !.loading = TRUE, !.err = ""]

\* e?.message || "Search failed"
ErrorText(e) == IF e.message # "" THEN e.message ELSE "Search failed"

\* catch (e) { setErr(...) }
Caught(st, e) == [st EXCEPT !.err = ErrorText(e)]

\* a finally block that leaves loading as it is
FinallySkipped(st) == st

\* finally { setLoading(false) }
Finally(st) == [st EXCEPT !.loading = FALSE]

\* setData({ hotels: result.hotels || [], narrative: result.narrative || "" })
Shown(st, r) ==
  [st EXCEPT !.data = [hotels |-> OrChain(<<Get(r, "hotels")>>, Arr(<<>>)),
                       narrative |-> OrChain(<<Get(r, "narrative")>>,
                           Str(<<>>))]]

\* the useState initial values
Mounted ==
  [loading |-> FALSE, err |-> "",
   data |-> [hotels |-> Arr(<<>>), narrative |-> Str(<<>>)]]

\* what the user may have typed and ticked
Forms ==
  [city : {Str(<<"L", "o", "n", "d", "o", "n">>), Str(<<"P", "A", "R">>),
      Str(<<"p", "a", "r">>), Str(<<>>)},
   checkIn : {GoodCheckIn, Str(<<>>)},
   checkOut : {GoodCheckOut},
   budget : {Num(200), Str(<<>>)},
   indoorPool : {TRUE},
   usePlanner : BOOLEAN]

\* how the run ended: in the catch block with e, or past setData with r
Failed(e) == [kind |-> "failed", error |-> e]

Done(r) == [kind |-> "ok", result |-> r]

\* what searchHotels(p) can reject with
SearchErrors(p) ==
  IF searchHotels(p).kind = "reject" THEN {searchHotels(p).error}
  ELSE ToolErrors
         \cup {runHotelSearch(r) :
                 r \in {x \in ToolReturns : runHotelSearch(x).t = "throw"}}

\* what searchHotels(p) can resolve with
SearchResults(p) ==
  IF searchHotels(p).kind = "reject" THEN {}
  ELSE {runHotelSearch(r) : r \in {x \in ToolReturns : runHotelSearch(x).t # "throw"}}

InitApp ==
  /\ NormIdle
  /\ ConcIdle
  /\ PostIdle
  /\ CardIdle
  /\ spc = "idle" /\ toolArgs = Pending /\ calls = 0 /\ found = Pending
  /\ payload = Pending
  /\ form \in Forms
  /\ app = Mounted
  /\ apc = "idle"
  /\ runs = 0
  /\ dataBefore = Pending
  /\ ended = Pending

\* the user changes a field of the form
EditForm ==
  /\ apc \in {"idle", "awaiting"}
  /\ \E f \in Forms : f # form /\ form' = f
  /\ UNCHANGED <<app, apc, runs, dataBefore, ended, searchVars, apiVars,
      cardVars>>

\* the button, disabled while loading, is clicked: doSearch starts
ClickSearch ==
  /\ apc = "idle"
  /\ ~app.loading
  /\ runs < MaxRuns
  /\ app' = Started(app)
  /\ apc' = "running"
  /\ runs' = runs + 1
  /\ dataBefore' = app.data
  /\ ended' = Pending
  /\ UNCHANGED <<form, searchVars, apiVars, cardVars>>

\* the structured route throws before any request
ValidationThrows ==
  /\ apc = "running"
  /\ RouteThrows(form)
  /\ app' = Finally(Caught(app,
      Thrower("Structured mode requires a 3-letter IATA city code")))
  /\ ended' = Failed(Thrower("Structured mode requires a 3-letter IATA city code"))
  /\ apc' = "idle"
  /\ UNCHANGED <<form, runs, dataBefore, searchVars, apiVars, cardVars>>

\* await searchHotels(payload)
SendRequest ==
  /\ apc = "running"
  /\ ~RouteThrows(form)
  /\ payload' = PayloadOf(form)
  /\ apc' = "awaiting"
  /\ UNCHANGED <<form, app, runs, dataBefore, ended, spc, toolArgs, calls,
      found,
                 apiVars, cardVars>>

\* searchHotels rejected
SearchFails ==
  /\ apc = "awaiting"
  /\ \E e \in SearchErrors(payload) :
       /\ app' = Finally(Caught(app, e))
       /\ ended' = Failed(e)
  /\ apc' = "idle"
  /\ UNCHANGED <<form, runs, dataBefore, searchVars, apiVars, cardVars>>

\* searchHotels resolved
SearchSucceeds ==
  /\ apc = "awaiting"
  /\ \E r \in SearchResults(payload) :
       /\ app' = Finally(Shown(app, r))
       /\ ended' = Done(r)
  /\ apc' = "idle"
  /\ UNCHANGED <<form, runs, dataBefore, searchVars, apiVars, cardVars>>

NextApp ==
  \/ EditForm \/ ClickSearch \/ ValidationThrows \/ SendRequest
  \/ SearchFails \/ SearchSucceeds

SpecApp == InitApp /\ [][NextApp]_vars

(***************************************************************************)
(* HotelCard (frontend/src/components/HotelCard.jsx): one card with its    *)
(* hotel, the four useState values, and the events of its main image and   *)
(* of its thumbnails.  loadState follows the main <img>: a new src starts  *)
(* a load, which ends in a load event or in an error event.  forced counts *)
(* the calls of setForceSrc, clicked is the thumbnail clicked last, until  *)
(* the next error event.                                                   *)
(***************************************************************************)
MaxImages == 2

FIX_PARAM_FROM == <<"p", "h", "o", "t", "o", "_", "r", "e", "f", "e", "r",
    "e", "n", "c", "e", "=">>

FIX_PARAM_TO == <<"p", "h", "o", "t", "o", "r", "e", "f", "e", "r", "e", "n",
    "c", "e", "=">>

PLACES_PHOTO == <<"/", "m", "a", "p", "s", ".", "g", "o", "o", "g", "l", "e",
    "a", "p", "i", "s", ".", "c", "o", "m", "/", "m", "a", "p", "s", "/",
    "a", "p", "i", "/", "p", "l", "a", "c", "e", "/", "p", "h", "o", "t",
    "o">>

MatchAt(s, sub, i) ==
  i + Len(sub) - 1 <= Len(s) /\ SubSeq(s, i, i + Len(sub) - 1) = sub

\* String.prototype.includes
Includes(s, sub) == \E i \in 1..(Len(s) + 1) : MatchAt(s, sub, i)

IndexOf(s, sub) ==
  CHOOSE i \in 1..(Len(s) + 1) :
    MatchAt(s, sub, i) /\ \A j \in 1..(i - 1) : ~MatchAt(s, sub, j)

ReplaceAt(s, i, n, to) == SubSeq(s, 1, i - 1) \o to \o SubSeq(s, i + n,
    Len(s))

\* s.replace(from, to) with a string pattern: the first occurrence only
ReplaceFirst(s, from, to) ==
  IF Includes(s, from) THEN ReplaceAt(s, IndexOf(s, from), Len(from),
      to) ELSE s

\* strip wrapping quotes
StripQuotes(u) ==
  IF /\ u # <<>>
     /\ \/ Head(u) = "\"" /\ u[Len(u)] = "\""
        \/ Head(u) = "'" /\ u[Len(u)] = "'"
  THEN SubSeq(u, 2, Len(u) - 1)
  ELSE u

\* correct Google Places param
CorrectParam(u) ==
  IF Includes(u, PLACES_PHOTO) /\ Includes(u, FIX_PARAM_FROM)
  THEN ReplaceFirst(u, FIX_PARAM_FROM, FIX_PARAM_TO)
  ELSE u

\* function fixGooglePhotoUrl(u)
fixGooglePhotoUrl(u) ==
  IF ~Truthy(u) THEN u ELSE Str(CorrectParam(StripQuotes(Trim(ToChars(u)))))

KeepAt(ks, kept) == [j \in 1..Len(kept) |-> ks[kept[j]]]

FirstSeen(ks) ==
  SelectSeq([i \in 1..Len(ks) |-> i],
      LAMBDA i : \A j \in 1..(i - 1) : ks[j] # ks[i])

\* const k = String(x)
Strings(arr) == [i \in 1..Len(arr) |-> ToChars(arr[i])]

\* function dedupe(arr): the strings of arr, each at its first place
dedupe(arr) == KeepAt(Strings(arr), FirstSeen(Strings(arr)))

\* typeof p === "string" ? p : (p?.url || p?.href || p?.src || null)
PhotoUrl(p) ==
  IF p.t = "string" THEN p
  ELSE OrChain(<<Get(p, "url"), Get(p, "href"), Get(p, "src")>>, Null)

ArrayOf(v) == IF IsArray(v) THEN v.a ELSE <<>>

ImagePool(h) ==
  (IF Truthy(Get(h, "thumbnail")) THEN <<Get(h, "thumbnail")>> ELSE <<>>)
    \o ArrayOf(Get(h, "images"))
    \o ArrayOf(Get(Get(h, "raw"), "images"))
    \o FilterTruthy([i \in 1..Len(ArrayOf(Get(Get(h, "raw"), "photos"))) |->
                       PhotoUrl(ArrayOf(Get(Get(h, "raw"), "photos"))[i])])

FixAll(pool) == [i \in 1..Len(pool) |-> fixGooglePhotoUrl(pool[i])]

\* function gatherImages(hotel)
gatherImages(h) == dedupe(FixAll(FilterTruthy(ImagePool(h))))

\* const images = gatherImages(hotel)
Images == gatherImages(hotel)

\* const hasImages = images.length > 0 && !imageError
HasImages == Len(Images) > 0 /\ ~imageError

\* images[Math.min(mainIdx, images.length - 1)]
ImageAt(imgs, idx) ==
  imgs[(IF idx < Len(imgs) - 1 THEN idx ELSE Len(imgs) - 1) + 1]

\* src={forceSrc || images[Math.min(mainIdx, images.length - 1)]}
SrcOf(force, imgs, idx) ==
  IF Truthy(force) THEN force.s ELSE ImageAt(imgs, idx)

MainSrc == SrcOf(forceSrc, Images, mainIdx)

\* the end of scheme and host of an absolute URL: the first "/" after "://",
\* or one past the end
HostEnd(s, from) ==
  IF \E i \in from..Len(s) : s[i] = "/"
  THEN CHOOSE i \in from..Len(s) : s[i] = "/" /\ \A j \in from..(i - 1) : s[j] # "/"
  ELSE Len(s) + 1

LowerUpTo(s, n) ==
  [i \in 1..Len(s) |-> IF i < n THEN LowerChar(s[i]) ELSE s[i]]

\* e.target.src: the src as the browser serializes it, scheme and host in
\* lower case.  (The images of this model are absolute URLs.)
TargetSrc(s) ==
  IF Includes(s, <<":", "/", "/">>) THEN LowerUpTo(s, HostEnd(s, IndexOf(s,
      <<":", "/", "/">>) + 3)) ELSE s

\* handleImageError: the retry is taken
RetryTaken(failedUrl) ==
  /\ Includes(failedUrl, FIX_PARAM_FROM)
  /\ Truthy(fixGooglePhotoUrl(Str(failedUrl)))
  /\ fixGooglePhotoUrl(Str(failedUrl)) # Str(failedUrl)

\* https://Maps.GoogleAPIs.com/maps/api/place/photo?photo_reference=abc
MixedCaseHostUrl ==
  <<"h", "t", "t", "p", "s", ":", "/", "/", "M", "a", "p", "s", ".", "G",
  "o", "o", "g", "l", "e", "A", "P", "I", "s", ".", "c", "o", "m", "/", "m",
  "a", "p", "s", "/", "a", "p", "i", "/", "p", "l", "a", "c", "e", "/", "p",
  "h", "o", "t", "o", "?", "p", "h", "o", "t", "o", "_", "r", "e", "f", "e",
  "r", "e", "n", "c", "e", "=", "a", "b", "c">>

\* a Places photo URL that names the parameter twice, and one naming it
\* three times
TwiceUrl == GooglePhotoUrl \o <<"&", "p", "h", "o", "t", "o", "_", "r", "e",
    "f", "e", "r", "e", "n", "c", "e", "=", "a", "b", "c">>

ThriceUrl == TwiceUrl \o <<"&", "p", "h", "o", "t", "o", "_", "r", "e", "f",
    "e", "r", "e", "n", "c", "e", "=", "a", "b", "c">>

\* https://img.example.com/p?photo_reference=abc
OtherHostParamUrl == <<"h", "t", "t", "p", "s", ":", "/", "/", "i", "m", "g",
    ".", "e", "x", "a", "m", "p", "l", "e", ".", "c", "o", "m", "/", "p",
    "?", "p", "h", "o", "t", "o", "_", "r", "e", "f", "e", "r", "e", "n",
    "c", "e", "=", "a", "b", "c">>

ImageUrls ==
  {GooglePhotoUrl, MixedCaseHostUrl, TwiceUrl, ThriceUrl, OtherHostUrl,
   OtherHostParamUrl, <<"\"">> \o GooglePhotoUrl \o <<"\"">>}

UrlLists == SeqsUpTo({Str(u) : u \in ImageUrls}, MaxImages)

\* the hotel prop: image lists, and a few hotels with images elsewhere
CardHotels ==
  {Obj([name |-> Str(HotelAlpha), images |-> Arr(q)]) : q \in UrlLists}
    \cup {Obj([name |-> Str(HotelAlpha), thumbnail |-> Str(OtherHostUrl),
               images |-> Arr(<<Str(OtherHostUrl), Str(MixedCaseHostUrl)>>)]),
          Obj([raw |-> Obj([images |-> Arr(<<Str(GooglePhotoUrl), Null>>),
                            photos |-> Arr(<<Obj([url |-> Str(OtherHostUrl)]),
                                             Str(OtherHostParamUrl), Null,
                                             Obj(NoProps)>>)])]),
          Obj(NoProps)}

InitCard ==
  /\ NormIdle
  /\ ConcIdle
  /\ PostIdle
  /\ SearchIdle
  /\ AppIdle
  /\ hotel \in CardHotels
  /\ imageError = FALSE
  /\ imageLoaded = FALSE
  /\ mainIdx = 0
  /\ forceSrc = Null
  /\ loadState = IF Len(gatherImages(hotel)) > 0 THEN "loading" ELSE "none"
  /\ forced = 0
  /\ clicked = Pending

\* onLoad={handleImageLoad}
MainImageLoads ==
  /\ HasImages
  /\ loadState = "loading"
  /\ imageLoaded' = TRUE
  /\ loadState' = "loaded"
  /\ UNCHANGED <<hotel, imageError, mainIdx, forceSrc, forced, clicked,
                 apiVars, searchVars, appVars>>

\* onError={handleImageError}, the retry: setForceSrc(fixed); return
MainImageRetried ==
  /\ HasImages
  /\ loadState = "loading"
  /\ RetryTaken(TargetSrc(MainSrc))
  /\ forceSrc' = fixGooglePhotoUrl(Str(TargetSrc(MainSrc)))
  /\ forced' = forced + 1
  /\ clicked' = Pending
  /\ UNCHANGED <<hotel, imageError, imageLoaded, mainIdx, loadState,
                 apiVars, searchVars, appVars>>

\* onError={handleImageError}, no retry: setImageError(true)
MainImageGivenUp ==
  /\ HasImages
  /\ loadState = "loading"
  /\ ~RetryTaken(TargetSrc(MainSrc))
  /\ imageError' = TRUE
  /\ loadState' = "none"
  /\ clicked' = Pending
  /\ UNCHANGED <<hotel, imageLoaded, mainIdx, forceSrc, forced,
                 apiVars, searchVars, appVars>>

\* the thumbnails shown: hasImages && images.length > 1, images.slice(0, 6)
Thumbnails ==
  IF HasImages /\ Len(Images) > 1
  THEN 0..((IF Len(Images) < 6 THEN Len(Images) ELSE 6) - 1)
  ELSE {}

\* onClick={() => setMainIdx(idx)}; a src that changes starts a load
ClickThumbnail ==
  /\ \E idx \in Thumbnails :
       /\ mainIdx' = idx
       /\ clicked' = [idx |-> idx]
       /\ loadState' = IF SrcOf(forceSrc, Images,
           idx) # MainSrc THEN "loading"
                       ELSE loadState
  /\ UNCHANGED <<hotel, imageError, imageLoaded, forceSrc, forced,
                 apiVars, searchVars, appVars>>

NextCard == MainImageLoads \/ MainImageRetried \/ MainImageGivenUp \/ ClickThumbnail

SpecCard == InitCard /\ [][NextCard]_vars

(***************************************************************************)
(* Properties.                                                             *)
(***************************************************************************)
Returned == pc \in {"returned", "again"}

\* the items of the first call's result, as a sequence
Items == Get(result, "items").a

AgainItems == Get(again, "items").a

IsPrimitive(v) == v.t \in {"undefined", "null", "boolean", "number", "string"}

HasNameLike(x) ==
  \/ \E k \in {"name", "hotelName", "propertyName", "title"} : Truthy(Get(x, k))
  \/ Truthy(Get(Get(x, "property"), "name"))
  \/ Truthy(Get(Get(x, "hotel"), "name"))

HasIdLike(x) ==
  \E k \in {"id", "hotelId", "propertyId", "offerId", "reference"} :
    Truthy(Get(x, k))

GBP == Str(<<"G", "B", "P">>)

HotelSearch == Str(<<"h", "o", "t", "e", "l", "_", "s", "e", "a", "r", "c", "h">>)

\* C1: for every JSON-compatible input normalizeSearchResponse returns a
\* value and never throws.
C1_NeverThrows == pc # "threw"

\* C2: for every input that is null, undefined or a non-object primitive the
\* result is exactly the canonical empty response
\* {items: [], meta: {}, hotels: [], narrative: ""}.
C2_PrimitiveGivesEmpty == (pc # "ready" /\ IsPrimitive(input)) => result = empty

\* C3 as stated: for the input {} the result is the canonical empty response,
\* meta being the empty object.
C3_EmptyObjectGivesCanonicalEmpty ==
  (pc # "ready" /\ input = Obj(NoProps)) => result = empty

\* C3 as amended: for the input {} items and hotels are empty, narrative is
\* "", and meta is {narrative: "", agent: null}.
C3_EmptyObjectResult ==
  (pc # "ready" /\ input = Obj(NoProps)) =>
    /\ pc # "threw"
    /\ Get(result, "items") = Arr(<<>>)
    /\ Get(result, "hotels") = Arr(<<>>)
    /\ Get(result, "narrative") = Str(<<>>)
    /\ Get(result, "meta") = Obj([narrative |-> Str(<<>>), agent |-> Null])

C3_Witness == pc = "returned" /\ input = Obj(NoProps)

\* C4: no returned item has both a null/empty name and a null/empty id, and
\* no returned item comes from a raw entity that has neither a name-like nor
\* an id-like field.
C4_ItemsHaveNameOrId ==
  Returned =>
    \A i \in 1..Len(Items) :
      /\ Truthy(Get(Items[i], "name")) \/ Truthy(Get(Items[i], "id"))
      /\ HasNameLike(Get(Items[i], "raw")) \/ HasIdLike(Get(Items[i], "raw"))

\* an entity without name and id stood before a named one and was dropped
C4_Witness ==
  /\ pc = "returned"
  /\ input = Obj([items |-> Arr(<<Obj(NoProps), Obj([name |-> Str(HotelAlpha)])>>)])
  /\ Len(Items) = 1
  /\ Get(Items[1], "name") = Str(HotelAlpha)

\* C5: the returned items contain no two elements whose ids are equal
\* ignoring case.
C5_NoDuplicateIds ==
  Returned =>
    \A i, j \in 1..Len(Items) :
      (i < j /\ Truthy(Get(Items[i], "id")) /\ Truthy(Get(Items[j], "id"))) =>
        toLowerCase(ToChars(Get(Items[i], "id")))
          # toLowerCase(ToChars(Get(Items[j], "id")))

\* C6: hotels is the same sequence as items, and narrative is meta.narrative
\* when that is defined and "" otherwise.
C6_Aliases ==
  Returned =>
    /\ Get(result, "hotels") = Get(result, "items")
    /\ Get(result, "narrative") =
         IF Get(Get(result, "meta"), "narrative") = Undefined THEN Str(<<>>)
         ELSE Get(Get(result, "meta"), "narrative")

C6_Witness ==
  /\ pc = "returned"
  /\ Len(Items) >= 1
  /\ Get(result, "narrative") = Str(<<"N", "i", "c", "e">>)

\* C7: normalizing {items: r.items} again yields items with the same count
\* and the same id and name values as r.items.
C7_Idempotent ==
  pc = "again" =>
    /\ again # Throw
    /\ Len(AgainItems) = Len(Items)
    /\ {Get(AgainItems[i], "id") : i \in 1..Len(AgainItems)}
         = {Get(Items[i], "id") : i \in 1..Len(Items)}
    /\ {Get(AgainItems[i], "name") : i \in 1..Len(AgainItems)}
         = {Get(Items[i], "name") : i \in 1..Len(Items)}

\* a second pass over an item whose id was synthesized from name and stay dates
C7_Witness ==
  /\ pc = "again"
  /\ Len(Items) >= 1
  /\ \E i \in 1..Len(Items) :
       /\ ~HasIdLike(Get(Items[i], "raw"))
       /\ Truthy(Get(Get(Items[i], "raw"), "check_in"))
       /\ Truthy(Get(Items[i], "id"))

\* C8: for a raw entity with a generic price and a per-night price field of a
\* different numeric value, the item's price is the per-night value.
C8_PerNightPriceWins ==
  Returned =>
    \A i \in 1..Len(Items) :
      \A k \in {"nightlyPrice", "est_price_gbp"} :
        (/\ Get(Get(Items[i], "raw"), "price").t = "number"
         /\ Get(Get(Items[i], "raw"), k).t = "number"
         /\ Get(Get(Items[i], "raw"), k) # Get(Get(Items[i], "raw"), "price"))
          => Get(Items[i], "price") = Get(Get(Items[i], "raw"), k)

\* the only element e of input.results, when input is {results: [e]} and e
\* has exactly a name, a numeric-string est_price and a check_in
IsResultsExample ==
  /\ input.t = "object"
  /\ DOMAIN input.o = {"results"}
  /\ IsArray(input.o["results"])
  /\ Len(input.o["results"].a) = 1
  /\ input.o["results"].a[1].t = "object"
  /\ DOMAIN input.o["results"].a[1].o = {"name", "est_price", "check_in"}
  /\ Get(input.o["results"].a[1], "name").t = "string"
  /\ Truthy(Get(input.o["results"].a[1], "name"))
  /\ Get(input.o["results"].a[1], "est_price").t = "string"
  /\ StringToNumber(Get(input.o["results"].a[1], "est_price").s) # NaN
  /\ Truthy(Get(input.o["results"].a[1], "check_in"))

\* C9: for {results: [e]} with such an e there is exactly one item, with
\* e's name, the number parsed from est_price, currency "GBP", source
\* "hotel_search" and a non-null synthesized id.
C9_ResultsExample ==
  (Returned /\ IsResultsExample) =>
    /\ Len(Items) = 1
    /\ Get(Items[1], "name") = Get(input.o["results"].a[1], "name")
    /\ Get(Items[1], "price")
         = StringToNumber(Get(input.o["results"].a[1], "est_price").s)
    /\ Get(Items[1], "currency") = GBP
    /\ Get(Items[1], "source") = HotelSearch
    /\ ~IsNullish(Get(Items[1], "id"))

\* the input is {steps: [{result: {offers: [o]}}]}, o has a hotel sub-object
\* with a name and the currency-prefixed total "$200"
IsOfferExample ==
  /\ IsArray(Get(input, "steps"))
  /\ Len(Get(input, "steps").a) = 1
  /\ IsArray(Get(Get(Get(input, "steps").a[1], "result"), "offers"))
  /\ Len(Get(Get(Get(input, "steps").a[1], "result"), "offers").a) = 1
  /\ Truthy(Get(Get(Get(Get(Get(input, "steps").a[1], "result"), "offers").a[1],
                    "hotel"), "name"))
  /\ Get(Get(Get(Get(input, "steps").a[1], "result"), "offers").a[1], "total")
       = Str(TotalText)

\* C10: the offer is not replaced by its hotel sub-object; the item has the
\* hotel's name and the numeric price inside the offer's total.
C10_OfferKeptWithPrice ==
  (Returned /\ IsOfferExample) =>
    /\ Len(Items) = 1
    /\ Get(Items[1], "name") = Str(BetaHouse)
    /\ Get(Items[1], "price") = Num(200)
    /\ Get(Items[1], "raw")
         = Get(Get(Get(input, "steps").a[1], "result"), "offers").a[1]

\* C11: normalizing the envelope {result: {content: [{json: P}]}} returns the
\* same items and the same narrative as normalizing the payload P itself.
C11_EnvelopeUnwrapped ==
  (pc = "returned" /\ enveloped # Pending) =>
    /\ enveloped # Throw
    /\ Get(enveloped, "items") = Get(result, "items")
    /\ Get(enveloped, "narrative") = Get(result, "narrative")

LooksLikeEntity(v) == looksLikeHotel(v) \/ looksLikeOffer(v)

IsSubObject(v) == v.t = "object"

SourceOf(in) == SourceItems(in, flattenArray(FilterTruthy(Candidates(in))))

\* an array sits at a known location of the payload, or in a pool of a step
ArrayFound(in) ==
  \/ \E loc \in Locations : IsArray(Get(in, loc))
  \/ /\ IsArray(Get(in, "steps"))
     /\ \E i \in 1..Len(Get(in, "steps").a) : \E pool \in Pools :
          \E k \in {"result", "output", "data"} :
            IsArray(Get(Get(Get(in, "steps").a[i], k), pool))

\* C13: the payload itself is the one-element candidate sequence exactly when
\* no array was found at any known location and the payload looks like a hotel
\* or an offer; with an array at a known location, even an empty one, the
\* payload is not a candidate.
C13_SingleItemFallback ==
  (Returned /\ input.t = "object") =>
    (SourceOf(input) = <<input>>
       <=> (~ArrayFound(input) /\ LooksLikeEntity(input)))

\* C14: an item's currency is the explicit currency field of its raw entity
\* when there is one, else a nested price/rate/pricing currency, else "GBP";
\* it is never null.
C14_CurrencyResolution ==
  Returned =>
    \A i \in 1..Len(Items) :
      LET raw == Get(Items[i], "raw")
          nested == OrChain(<<Get(Get(raw, "price"), "currency"),
                              Get(Get(raw, "rate"), "currency")>>,
                            Get(Get(raw, "pricing"), "currency"))
      IN Get(Items[i], "currency") =
           (IF Truthy(Get(raw, "currency")) THEN Get(raw, "currency")
            ELSE IF Truthy(nested) THEN nested ELSE GBP)

LocationOrder == <<"items", "results", "offers", "hotels", "data", "payload">>

PoolOrder == <<"offers", "items", "results", "hotels", "data">>

\* the elements of the array at v[k], none when there is no array
ArrayAt(v, k) == IF IsArray(Get(v, k)) THEN Get(v, k).a ELSE <<>>

\* the arrays at the places named by order, one after the other
InOrder(v, order) == ConcatAll([i \in 1..Len(order) |-> ArrayAt(v, order[i])])

StepResult(st) ==
  OrChain(<<Get(st, "result"), Get(st, "output")>>, Get(st, "data"))

FromSteps(in) ==
  IF IsArray(Get(in, "steps"))
  THEN ConcatAll([i \in 1..Len(Get(in, "steps").a) |->
                    InOrder(StepResult(Get(in, "steps").a[i]), PoolOrder)])
  ELSE <<>>

ExpectedCandidates(in) == InOrder(in, LocationOrder) \o FromSteps(in)

\* the items a candidate sequence leaves: each element normalized, the null
\* ones removed, nothing moved
Survivors(cands) ==
  FilterTruthy([i \in 1..Len(cands) |-> normalizeItem(coerceItem(cands[i]))])

\* C15: the items are the survivors of the candidate sequence made of the
\* arrays at items, results, offers, hotels, data, payload, in this order,
\* followed by the arrays of the steps in step order (within a step: offers,
\* items, results, hotels, data), every array with all its elements in
\* their order.
C15_CandidateOrder ==
  (Returned /\ input.t = "object" /\ ExpectedCandidates(input) # <<>>) =>
    Items = Survivors(ExpectedCandidates(input))

\* two arrays and a planner trace contributed, and an element was dropped
\* from the middle
C15_Witness ==
  /\ pc = "returned"
  /\ IsArray(Get(input, "hotels"))
  /\ Len(ArrayAt(input, "items")) = 2
  /\ FromSteps(input) # <<>>
  /\ Len(Items) = 9
  /\ Len(ExpectedCandidates(input)) = 11

IdOrder == <<"id", "hotelId", "propertyId", "offerId", "reference">>

\* the first non-empty value among the fields keys of x, in order
RECURSIVE FirstNonEmpty(_, _)
FirstNonEmpty(x, keys) ==
  IF keys = <<>> THEN Null
  ELSE IF Truthy(Get(x, Head(keys))) THEN Get(x, Head(keys))
  ELSE FirstNonEmpty(x, Tail(keys))

\* the letters and digits of s, in order
Alnum(s) == SelectSeq(s, IsSlugChar)

IsPrefix(p, s) == Len(p) <= Len(s) /\ p = SubSeq(s, 1, Len(p))

\* sl is the slug of src: lowercase letters, digits and single hyphens only,
\* no hyphen in front, at most 60 characters, carrying the letters and
\* digits of the lowercased src in order: all of them, with no hyphen at
\* the end, unless the cut at 60 took the rest away
IsSlugOf(sl, src) ==
  /\ \A i \in 1..Len(sl) : IsSlugChar(sl[i]) \/ sl[i] = "-"
  /\ \A i \in 1..(Len(sl) - 1) : ~(sl[i] = "-" /\ sl[i + 1] = "-")
  /\ sl = <<>> \/ sl[1] # "-"
  /\ Len(sl) <= SlugMax
  /\ IsPrefix(Alnum(sl), Alnum(toLowerCase(src)))
  /\ Len(sl) < SlugMax =>
       /\ Alnum(sl) = Alnum(toLowerCase(src))
       /\ sl = <<>> \/ sl[Len(sl)] # "-"

Contains(s, sub) ==
  \E i \in 1..(Len(s) - Len(sub) + 1) : SubSeq(s, i, i + Len(sub) - 1) = sub

PlacesPhotoPath ==
  <<"/", "m", "a", "p", "s", ".", "g", "o", "o", "g", "l", "e", "a", "p",
    "i", "s", ".", "c", "o", "m", "/", "m", "a", "p", "s", "/", "a", "p",
    "i", "/", "p", "l", "a", "c", "e", "/", "p", "h", "o", "t", "o">>

WrongParam ==
  <<"p", "h", "o", "t", "o", "_", "r", "e", "f", "e", "r", "e", "n", "c",
    "e", "=">>

RightParam ==
  <<"p", "h", "o", "t", "o", "r", "e", "f", "e", "r", "e", "n", "c", "e",
    "=">>

\* C17: when the first image URL of a raw entity points at the Google Places
\* photo endpoint and has the parameter photo_reference=, the item's
\* thumbnail has photoreference= instead and no wrapping quotes; a first image
\* URL on another host is the thumbnail unchanged.
C17_ThumbnailFixed ==
  Returned =>
    \A i \in 1..Len(Items) :
      LET first == Index0(Get(Get(Items[i], "raw"), "images"))
          thumbnail == Get(Items[i], "thumbnail")
      IN first.t = "string" =>
           IF Contains(first.s, PlacesPhotoPath) /\ Contains(first.s, WrongParam)
           THEN /\ thumbnail.t = "string"
                /\ Contains(thumbnail.s, RightParam)
                /\ ~Contains(thumbnail.s, WrongParam)
                /\ Head(thumbnail.s) # "\""
           ELSE thumbnail = first

\* C18: meta.narrative is the first non-empty of the payload's narrative,
\* summary, text, message, the narrative under a hotels wrapper object, and
\* the notes array joined with " \u2022 ", and "" when there is none;
\* meta.agent is the first non-empty of agent, tool, type, workflow, else null.
C18_MetaNarrative ==
  (Returned /\ input.t = "object") =>
    LET notes == Get(input, "notes")
        meta == Get(result, "meta")
    IN /\ Get(meta, "narrative") =
            OrChain(<<Get(input, "narrative"), Get(input, "summary"),
                      Get(input, "text"), Get(input, "message"),
                      Get(Get(input, "hotels"), "narrative"),
                      IF IsArray(notes)
                      THEN Str(Join(notes.a, <<" ", Bullet, " ">>))
                      ELSE Str(<<>>)>>, Str(<<>>))
       /\ Get(meta, "agent") =
            OrChain(<<Get(input, "agent"), Get(input, "tool"), Get(input, "type")>>,
                    OrChain(<<Get(input, "workflow")>>, Null))

\* C19: whatever the interleaving of the calls, every call that has finished
\* has the result normalizeSearchResponse gives for its payload on its own,
\* the payload being what it was.
C19_CallsIndependent ==
  \A c \in Callers :
    frames[c].pc = "done" =>
      frames[c].result = normalizeSearchResponse(heap[frames[c].ref])

\* two calls on different payloads overlapped and both returned items
C19_Witness ==
  /\ \A c \in Callers : frames[c].pc = "done" /\ frames[c].result # Throw
  /\ frames[1].overlapped
  /\ frames[1].ref # frames[2].ref
  /\ Len(Get(frames[1].result, "items").a) = 2
  /\ Len(Get(frames[2].result, "items").a) = 6

\* C20: a call of postJSON with retries = R issues at most R + 1 fetch
\* attempts, and exactly one when retries is 0 or left out; a retry is only
\* waited for while an attempt is left, and a call that rejects after an
\* attempt rejects with the error of the last attempt it issued.
C20_BoundedRetry ==
  ppc # "idle" =>
    /\ fetches <= Retries + 1
    /\ (Retries = 0 /\ ppc \in {"fetching", "resolved", "rejected"}) => fetches = 1
    /\ ppc = "backoff" => fetches <= Retries
    /\ (ppc = "rejected" /\ fetches > 0) =>
         outcome = lastErr /\ outcome.attempt = fetches - 1

\* two retries were allowed, three attempts failed with a server error, and
\* the call rejected with the third one's error
C20_Witness ==
  /\ ppc = "rejected"
  /\ Retries = 2
  /\ fetches = 3
  /\ outcome.status = 500
  /\ outcome.attempt = 2

ServerError(o) == o.kind = "response" /\ o.status >= 500 /\ o.status <= 599

\* C21: another attempt is started only after an attempt failed with an HTTP
\* status in 500..599 while attempts remained; an abort by the timer, a
\* network error, a 4xx response or an unparseable body makes postJSON
\* reject at once, with no further fetch; and a timeout is reported as the
\* error "Request timed out".
C21_RetryOnlyOn5xx ==
  ppc # "idle" =>
    /\ ppc = "backoff" => (ServerError(res) /\ attempt < Retries)
    /\ (attempt > 0 /\ ppc \in {"loop", "fetching"}) => ServerError(res)
    /\ (res # Pending /\ ~Succeeds(res)
          /\ (res.kind # "response" \/ res.text = "nonjson" \/ ~ServerError(res)))
         => (ppc = "rejected" /\ fetches = attempt + 1)
    /\ (ppc = "rejected" /\ res # Pending /\ res.kind = "abort") =>
         (outcome.name = "Error" /\ outcome.message = "Request timed out")

\* after one server error and its retry, the second attempt was aborted by the
\* timer and the call rejected, an attempt still being left
C21_Witness ==
  /\ ppc = "rejected"
  /\ Retries = 2
  /\ fetches = 2
  /\ res.kind = "abort"
  /\ res.name = "AbortError"
  /\ outcome.message = "Request timed out"

\* C22: with attempts remaining, a response with a status in 500..599 never
\* ends the call in a rejection, whatever its body is.
C22_Every5xxRetried ==
  (ppc = "rejected" /\ res # Pending /\ ServerError(res)) => ~(attempt < Retries)

\* C23: at most one timeout timer is armed at any moment, none while
\* postJSON waits for the retry delay, and none once it has returned or
\* thrown.
C23_TimerHygiene ==
  ppc # "idle" =>
    /\ Cardinality(timers) <= 1
    /\ ppc \in {"backoff", "resolved", "rejected"} => timers = {}

\* the call returned on its second attempt and left no timer behind
C23_Witness ==
  /\ ppc = "resolved"
  /\ attempt = 1
  /\ fetches = 2
  /\ timers = {}

ToolThrew == tool.t = "throw"

\* the content items of the result of the body
ContentItems(data) ==
  IF IsArray(Get(Get(data, "result"), "content"))
  THEN Get(Get(data, "result"), "content").a ELSE <<>>

HasMember(v, k) == v.t = "object" /\ k \in DOMAIN v.o

\* the first item of items that has a member k, undefined when none has
FirstWith(items, k) ==
  IF \E i \in 1..Len(items) : HasMember(items[i], k)
  THEN items[CHOOSE i \in 1..Len(items) :
               /\ HasMember(items[i], k)
               /\ \A j \in 1..(i - 1) : ~HasMember(items[j], k)]
  ELSE Undefined

\* the json of the first content item that has one, else the text of the
\* first item that has one, else the result itself
Picked(data) ==
  IF FirstWith(ContentItems(data), "json") # Undefined
  THEN Get(FirstWith(ContentItems(data), "json"), "json")
  ELSE IF FirstWith(ContentItems(data), "text") # Undefined
  THEN Get(FirstWith(ContentItems(data), "text"), "text")
  ELSE Get(data, "result")

\* C24: callTool returns a value only when the HTTP exchange succeeded, the
\* body has no error member and the picked content is non-empty; a body with
\* an error member makes it throw, an absent or empty result makes it throw
\* "Empty MCP result content", and otherwise it returns the picked content.
C24_CallToolResult ==
  tool # Pending =>
    /\ ppc = "rejected" => ToolThrew
    /\ ppc = "resolved" =>
         IF HasMember(outcome.data, "error") THEN ToolThrew
         ELSE IF ~Truthy(Picked(outcome.data))
         THEN tool = Thrower("Empty MCP result content")
         ELSE tool = Picked(outcome.data)

\* the structured path: a payload without a query, or with a stay
OnStructuredPath(p) ==
  /\ p.t \in {"object", "undefined"}
  /\ ~Truthy(Get(p, "query")) \/ Truthy(Get(p, "stay"))

\* the value given for k: the stay's when it has one, else the payload's
ValueGiven(p, k) ==
  IF ~IsNullish(Get(Get(p, "stay"), k)) THEN Get(Get(p, "stay"),
      k) ELSE Get(p, k)

DigitsAt(s, i, n) ==
  i + n - 1 <= Len(s) /\ \A k \in i..(i + n - 1) : s[k] \in Digits

CharAt(s, i, c) == i <= Len(s) /\ s[i] = c

\* a token YYYY-M-D (M and D of one or two digits) starts at position i of s
YearFirstAt(s, i) ==
  \E m \in 1..2 :
    /\ DigitsAt(s, i, 4) /\ CharAt(s, i + 4, "-")
    /\ DigitsAt(s, i + 5, m) /\ CharAt(s, i + 5 + m, "-")
    /\ DigitsAt(s, i + 6 + m, 1)

\* a token D/M/YYYY (D and M of one or two digits) starts at position i of s
DayFirstAt(s, i) ==
  \E d \in 1..2 : \E m \in 1..2 :
    /\ DigitsAt(s, i, d) /\ CharAt(s, i + d, "/")
    /\ DigitsAt(s, i + d + 1, m) /\ CharAt(s, i + d + 1 + m, "/")
    /\ DigitsAt(s, i + d + m + 2, 4)

\* v is missing, or is no text with a date-like token in it
LacksDate(v) ==
  v.t # "string" \/ ~\E i \in 1..Len(v.s) : YearFirstAt(v.s,
      i) \/ DayFirstAt(v.s, i)

\* the city code, the payload's before the stay's, is missing or blank
CityEmpty(p) ==
  IF ~IsNullish(Get(p, "city_code"))
  THEN Get(p, "city_code").t = "string"
       /\ \A i \in 1..Len(Get(p, "city_code").s) : Get(p,
           "city_code").s[i] \in WhiteSpace
  ELSE \/ IsNullish(Get(Get(p, "stay"), "city_code"))
       \/ /\ Get(Get(p, "stay"), "city_code").t = "string"
          /\ \A i \in 1..Len(Get(Get(p, "stay"), "city_code").s) :
               Get(Get(p, "stay"), "city_code").s[i] \in WhiteSpace

SearchSettledOrWaiting == spc \in {"awaiting", "resolved", "rejected"}

\* C25: on the structured path, when the check-in or the check-out value is
\* missing or holds no date-like token, or the city code is empty, the call
\* of searchHotels is rejected with an error and callTool is not invoked
\* for it.
C25_ValidationBeforeNetwork ==
  (/\ SearchSettledOrWaiting
   /\ OnStructuredPath(payload)
   /\ \/ LacksDate(ValueGiven(payload, "check_in"))
      \/ LacksDate(ValueGiven(payload, "check_out"))
      \/ CityEmpty(payload))
  => /\ spc = "rejected"
     /\ found.t = "throw"
     /\ calls = 0
     /\ toolArgs = Pending

\* a stay whose check-in is a text without a date has been turned down
C25_Witness ==
  /\ spc = "rejected"
  /\ calls = 0
  /\ Get(Get(payload, "stay"),
      "check_in") = Str(<<"t", "o", "m", "o", "r", "r", "o", "w">>)
  /\ ~LacksDate(ValueGiven(payload, "check_out"))
  /\ ~CityEmpty(payload)
  /\ found = Thrower("Check-in date is required")

\* the budget given: payload.maxPrice, else stay.max_price, else
\* stay.max_price_gbp, each passed over when it is null or undefined
BudgetGiven(p) ==
  IF ~IsNullish(Get(p, "maxPrice")) THEN Get(p, "maxPrice")
  ELSE IF ~IsNullish(Get(Get(p, "stay"), "max_price")) THEN Get(Get(p,
      "stay"), "max_price")
  ELSE Get(Get(p, "stay"), "max_price_gbp")

\* the finite number greater than 0 a budget parses to, null when it parses
\* to none
BudgetMeant(v) ==
  CASE v \in {Num(120), Num(200), Num(300), Dec(995, 1)} -> v
    [] v = Str(<<"1", "5", "0">>) -> Num(150)
    [] v = Str(<<" ", "8", "0", " ">>) -> Num(80)
    [] v = Str(<<"9", "9", ".", "5">>) -> Dec(995, 1)
    [] v = Str(<<"2", "0", "0", "a", "b", "c">>) -> Num(200)
    [] OTHER -> Null

HasBoth(sent, want) ==
  /\ "max_price" \in DOMAIN sent /\ sent["max_price"] = want
  /\ "max_price_gbp" \in DOMAIN sent /\ sent["max_price_gbp"] = want

HasNeither(sent) == "max_price" \notin DOMAIN sent /\ "max_price_gbp" \notin DOMAIN sent

BudgetSent(sent, want) ==
  IF want = Null THEN HasNeither(sent) ELSE HasBoth(sent, want)

StructuredCallMade == calls = 1 /\ Get(toolArgs, "stay").t = "object"

\* C26: the tool arguments of the structured path carry stay.max_price and
\* stay.max_price_gbp exactly when the budget parses to a finite number
\* greater than 0, both equal to that number; otherwise neither key.
C26_BudgetFields ==
  StructuredCallMade =>
    BudgetSent(Get(toolArgs, "stay").o, BudgetMeant(BudgetGiven(payload)))

\* a budget given as the text "99.5" was sent as the number 99.5, twice
C26_Witness ==
  /\ StructuredCallMade
  /\ BudgetGiven(payload) = Str(<<"9", "9", ".", "5">>)
  /\ Get(Get(toolArgs, "stay"), "max_price") = Dec(995, 1)
  /\ Get(Get(toolArgs, "stay"), "max_price_gbp") = Dec(995, 1)

\* a negative budget was left out of the tool arguments
C26_WitnessAbsent ==
  /\ StructuredCallMade
  /\ BudgetGiven(payload) = Num(0 - 5)
  /\ HasNeither(Get(toolArgs, "stay").o)

RunEnded == apc = "idle" /\ ended # Pending

\* C27: a run of doSearch has loading true and err cleared while the
\* request is out, and loading false once it has ended; after a failed run
\* (searchHotels rejected, or a validation threw) err is not empty and data
\* is what it was before the run, after a successful run err is empty and
\* data holds the hotels and the narrative of the result.
C27_SearchLifecycle ==
  /\ apc \in {"running", "awaiting"} => app.loading /\ app.err = ""
  /\ RunEnded => ~app.loading
  /\ (RunEnded /\ ended.kind = "failed") => app.err # "" /\ app.data = dataBefore
  /\ (RunEnded /\ ended.kind = "ok") =>
       /\ app.err = ""
       /\ app.data.hotels = Get(ended.result, "hotels")
       /\ app.data.narrative = Get(ended.result, "narrative")

\* a second run failed in the structured route's own validation and left
\* the hotels of the first run in place
C27_Witness ==
  /\ RunEnded
  /\ runs = 2
  /\ ended.kind = "failed"
  /\ RouteThrows(form)
  /\ ~app.loading
  /\ app.err = "Structured mode requires a 3-letter IATA city code"
  /\ app.data.hotels # Arr(<<>>)
  /\ app.data = dataBefore

\* a run succeeded and data shows its hotels
C27_WitnessOk ==
  /\ RunEnded
  /\ ended.kind = "ok"
  /\ app.data.hotels # Arr(<<>>)
  /\ app.data.hotels = Get(ended.result, "hotels")

\* C28: for one card, a failing main image causes at most one retry with a
\* corrected URL (forceSrc is set at most once), and once imageError is
\* set the card shows the placeholder.
C28_OneRetryThenPlaceholder ==
  /\ forced <= 1
  /\ imageError => ~HasImages

\* imageError, once true, stays true
C28_ImageErrorStays == [][imageError => imageError']_vars

\* the one retry, taken for a URL whose host the browser lower-cased
C28_RetryReached ==
  /\ forced = 1
  /\ Get(hotel, "images") = Arr(<<Str(MixedCaseHostUrl)>>)
  /\ forceSrc = Str(<<"h", "t", "t", "p", "s", ":", "/", "/", "m", "a", "p",
      "s", ".", "g", "o", "o", "g", "l", "e", "a", "p", "i", "s", ".", "c",
      "o", "m", "/", "m", "a", "p", "s", "/", "a", "p", "i", "/", "p", "l",
      "a", "c", "e", "/", "p", "h", "o", "t", "o", "?", "p", "h", "o", "t",
      "o", "r", "e", "f", "e", "r", "e", "n", "c", "e", "=", "a", "b", "c">>)

\* C29: after the user has clicked thumbnail number idx, the main image
\* shown is images[idx].
C29_ThumbnailShown == clicked # Pending => MainSrc = Images[clicked.idx + 1]

\* C29 for the cards that have taken no retry
C29_ShownWithoutRetry ==
  (clicked # Pending /\ forceSrc = Null) => MainSrc = Images[clicked.idx + 1]

\* the second thumbnail was clicked and is the main image
C29_ClickReached ==
  /\ clicked = [idx |-> 1]
  /\ forceSrc = Null
  /\ Len(Images) = 2
  /\ MainSrc = Images[2]

\* the first image, whose host the browser lower-cased, failed and was
\* retried; the second thumbnail was clicked and the retried URL stays
C29_RetryHidesClick ==
  /\ Get(hotel, "images") = Arr(<<Str(MixedCaseHostUrl), Str(OtherHostUrl)>>)
  /\ forced = 1
  /\ clicked = [idx |-> 1]
  /\ MainSrc # Images[2]
  /\ MainSrc = forceSrc.s

====
